---- MODULE Spec2Model ----
(***************************************************************************)
(* Model of proc-tools-core: the float-to-string conversion (the two Ryu   *)
(* reduction engines d2d (d2s.rs) and f2d (f2s.rs), the renderer format64  *)
(* / format32 (pretty.rs) and the entry points ftoa_buf_f64 / ftoa_buf_f32 *)
(* (impl_to_ascii.rs)), the integer-to-string functions itoa_buf_<ty>, the *)
(* concat parameter traits (impl_to_ascii.rs) and                          *)
(* replace_multiple_patterns (lib.rs).  A behaviour is one call of one of  *)
(* these.                                                                  *)
(*                                                                         *)
(* Rust's u32 / u64 / u128 values exceed TLC's integers, so an unsigned    *)
(* machine integer is a little-endian sequence of 15-bit limbs with no     *)
(* leading zero limb (zero is the empty sequence).  i32 / isize values     *)
(* (exponents, shift counts, buffer offsets) are TLA+ integers.            *)
(***************************************************************************)
EXTENDS Integers, Sequences, FiniteSets, TLC

VARIABLES pc, ty, bits, buf, ret, engine, rmp, itoa, cat, est, pow5, gen, seq

vars == <<pc, ty, bits, buf, ret, engine, rmp, itoa, cat, est, pow5, gen, seq>>


(***************************************************************************)
(* Unsigned machine arithmetic                                             *)
(***************************************************************************)
BASE == 2^15

Limb(a, i) == IF 1 <= i /\ i <= Len(a) THEN a[i] ELSE 0
Max(m, n) == IF m >= n THEN m ELSE n
B2N(b) == IF b THEN 1 ELSE 0

\* `rest`, once `first` has its value: Rust evaluates its statements in order
After(first, rest) == <<first, rest>>[2]

\* a without its leading zero limbs
RECURSIVE TopIdx(_, _)
TopIdx(a, n) == IF n = 0 THEN 0 ELSE IF a[n] # 0 THEN n ELSE TopIdx(a, n - 1)
Norm(a) == SubSeq(a, 1, TopIdx(a, Len(a)))

\* the carry into limb i of a + b: the limbs below i sum to BASE^(i - 1) or more
CarryIn(a, b, i) ==
    \E j \in 1..(i - 1) :
        /\ Limb(a, j) + Limb(b, j) >= BASE
        /\ \A k \in (j + 1)..(i - 1) : Limb(a, k) + Limb(b, k) = BASE - 1

\* a + b
Add(a, b) ==
    IF a = <<>> THEN b
    ELSE IF b = <<>> THEN a
    ELSE
    Norm([i \in 1..(Max(Len(a), Len(b)) + 1) |->
             (Limb(a, i) + Limb(b, i) + B2N(CarryIn(a, b, i))) % BASE])

\* the borrow out of limb i of a - b: the limbs of a below i are less than those of b
BorrowIn(a, b, i) ==
    \E j \in 1..(i - 1) :
        /\ Limb(a, j) < Limb(b, j)
        /\ \A k \in (j + 1)..(i - 1) : Limb(a, k) = Limb(b, k)

\* a - b, for a >= b
Sub(a, b) ==
    IF a = <<>> \/ b = <<>> THEN a
    ELSE
    Norm([i \in 1..Len(a) |-> (a[i] - Limb(b, i) - B2N(BorrowIn(a, b, i))) % BASE])

\* the number with the limbs w, each below BASE^2, brought back below BASE
Narrow(w) ==
    Add([i \in 1..Len(w) |-> w[i] % BASE], <<0>> \o [i \in 1..Len(w) |-> w[i] \div BASE])

\* a * d, for 0 <= d < BASE
MulSmall(a, d) == IF a = <<>> THEN a ELSE Narrow(SubSeq([i \in 1..Len(a) |-> a[i] * d], 1, Len(a)))

\* quotient limbs lo..hi of a / d (0 < d < BASE), remainder r coming in from
\* above; h is the high half, divided first
RECURSIVE DivR(_, _, _, _, _)
DivJoin(l, h) == [s |-> l.s \o h.s, r |-> l.r]
DivLow(a, d, lo, mid, h) == After(h, DivJoin(DivR(a, d, lo, mid, h.r), h))
DivR(a, d, lo, hi, r) ==
    IF lo = hi
    THEN [s |-> <<(r * BASE + a[lo]) \div d>>, r |-> (r * BASE + a[lo]) % d]
    ELSE DivLow(a, d, lo, (lo + hi) \div 2, DivR(a, d, ((lo + hi) \div 2) + 1, hi, r))

DivModSmall(a, d) ==
    IF a = <<>> THEN [q |-> <<>>, r |-> 0]
    ELSE [q |-> Norm(DivR(a, d, 1, Len(a), 0).s), r |-> DivR(a, d, 1, Len(a), 0).r]
DivSmall(a, d) == IF a = <<>> THEN a ELSE Norm(DivR(a, d, 1, Len(a), 0).s)
ModSmall(a, d) == IF a = <<>> THEN 0 ELSE DivR(a, d, 1, Len(a), 0).r

\* a << k, a >> k, a mod 2^w
Shl(a, k) ==
    IF a = <<>> THEN a
    ELSE
    Norm([i \in 1..(Len(a) + (k \div 15) + 1) |->
             (Limb(a, i - (k \div 15)) % 2^(15 - (k % 15))) * 2^(k % 15)
             + (Limb(a, i - (k \div 15) - 1) \div 2^(15 - (k % 15)))])
Shr(a, k) ==
    IF (k \div 15) >= Len(a) THEN <<>>
    ELSE
    Norm([i \in 1..(Len(a) - (k \div 15)) |->
             (Limb(a, i + (k \div 15)) \div 2^(k % 15))
             + (Limb(a, i + (k \div 15) + 1) % 2^(k % 15)) * 2^(15 - (k % 15))])
Trunc(a, w) == IF w \div 15 >= Len(a) THEN a
               ELSE Norm(Append(SubSeq(a, 1, w \div 15), a[(w \div 15) + 1] % 2^(w % 15)))

\* -1, 0, 1 as a < b, a = b, a > b
Cmp(a, b) ==
    IF Len(a) < Len(b) THEN -1
    ELSE IF Len(a) > Len(b) THEN 1
    ELSE IF \A i \in 1..Len(a) : a[i] = b[i] THEN 0
    ELSE IF \E i \in 1..Len(a) : a[i] < b[i] /\ \A j \in (i + 1)..Len(a) : a[j] = b[j] THEN -1
    ELSE 1
Lt(a, b) == Cmp(a, b) < 0
Le(a, b) == Cmp(a, b) <= 0

\* column k of a * b: of each product a[i] * b[j], the low 15 bits where
\* i + j = k + 1 and the rest where i + j = k; the sum over i in lo..hi
RECURSIVE MulCol(_, _, _, _, _)
MulCol(a, b, k, lo, hi) ==
    IF lo = hi
    THEN ((a[lo] * Limb(b, k + 1 - lo)) % BASE) + ((a[lo] * Limb(b, k - lo)) \div BASE)
    ELSE MulCol(a, b, k, lo, (lo + hi) \div 2) + MulCol(a, b, k, ((lo + hi) \div 2) + 1, hi)

Mul(a, b) ==
    IF a = <<>> \/ b = <<>> THEN <<>>
    ELSE Narrow(SubSeq([k \in 1..(Len(a) + Len(b)) |-> MulCol(a, b, k, 1, Len(a))],
                       1, Len(a) + Len(b)))

RECURSIVE FromNat(_)
FromNat(n) == IF n = 0 THEN <<>> ELSE <<n % BASE>> \o FromNat(n \div BASE)

RECURSIVE ToNat(_)
ToNat(a) == IF a = <<>> THEN 0 ELSE a[1] + BASE * ToNat(Tail(a))

\* a decimal literal, given as its digits in groups of four, most significant first
RECURSIVE FromDec(_)
FromDec(g) == IF g = <<>> THEN <<>>
              ELSE Add(MulSmall(FromDec(SubSeq(g, 1, Len(g) - 1)), 10000),
                       FromNat(g[Len(g)]))

\* wrapping u32 arithmetic: a.wrapping_sub(b), a.wrapping_mul(b), x as u32
AsU32(a) == Trunc(a, 32)
WrappingSub32(a, b) == Trunc(Sub(Add(a, Shl(<<1>>, 32)), b), 32)
WrappingMul32(a, b) == Trunc(Mul(a, b), 32)
\* an i32 cast to u32
I32AsU32(e) == IF e >= 0 THEN FromNat(e) ELSE Sub(Shl(<<1>>, 32), FromNat(-e))

(***************************************************************************)
(* float2str/common.rs                                                     *)
(***************************************************************************)
pow5bits_floor(e) == ToNat(Shr(WrappingMul32(I32AsU32(e), FromNat(1217359)), 19))
log10_pow2_nearest(e) ==
    ToNat(Shr(Add(WrappingMul32(I32AsU32(e), FromNat(78913)), Shl(<<1>>, 17)), 18))

pow5bits(e) == ToNat(Shr(WrappingMul32(I32AsU32(e), FromNat(1217359)), 19)) + 1
log10_pow2(e) == ToNat(Shr(WrappingMul32(I32AsU32(e), FromNat(78913)), 18))
log10_pow5(e) == ToNat(Shr(WrappingMul32(I32AsU32(e), FromNat(732923)), 20))

\* 10^n
RECURSIVE Pow10(_)
Pow10(n) == IF n < 5 THEN <<10^n>> ELSE MulSmall(Pow10(n - 4), 10000)

\* 10^1 .. 10^17
POW10 == SubSeq([i \in 1..17 |-> Pow10(i)], 1, 17)

decimal_length9(v) ==
    IF Lt(v, POW10[1]) THEN 1
    ELSE IF Lt(v, POW10[2]) THEN 2
    ELSE IF Lt(v, POW10[3]) THEN 3
    ELSE IF Lt(v, POW10[4]) THEN 4
    ELSE IF Lt(v, POW10[5]) THEN 5
    ELSE IF Lt(v, POW10[6]) THEN 6
    ELSE IF Lt(v, POW10[7]) THEN 7
    ELSE IF Lt(v, POW10[8]) THEN 8
    ELSE 9


(***************************************************************************)
(* Power-of-five tables (float2str/mod.rs is not among the sources; the    *)
(* entries are the 128-bit values the specification describes: the         *)
(* truncated binary expansion of 5^i and of its reciprocal, 125 bits       *)
(* each).  An entry is the pair <<low 64 bits, high 64 bits>>, so that     *)
(* mul.0 is entry[1] and mul.1 is entry[2].                                *)
(***************************************************************************)
\* 5^i from h = 5^(i \div 2): h is taken first, then squared
Pow5Step(h, odd) == IF h = <<>> THEN h
                    ELSE IF odd THEN MulSmall(Mul(h, h), 5)
                    ELSE Mul(h, h)

RECURSIVE Pow5(_)
Pow5(i) == IF i = 0 THEN <<1>> ELSE Pow5Step(Pow5(i \div 2), i % 2 = 1)

\* floor(a / 5^i), by halves of i: floor(floor(a / 5^x) / 5^y) = floor(a / 5^(x + y))
RECURSIVE DivPow5(_, _)
DivPow5(a, i) == IF a = <<>> THEN a
                 ELSE IF i <= 6 THEN DivSmall(a, 5^i)
                 ELSE DivPow5(DivPow5(a, i \div 2), i - (i \div 2))

RECURSIVE BitLenSmall(_)
BitLenSmall(n) == IF n = 0 THEN 0 ELSE 1 + BitLenSmall(n \div 2)
BitLen(a) == IF a = <<>> THEN 0 ELSE 15 * (Len(a) - 1) + BitLenSmall(a[Len(a)])

Split128(v) == <<Trunc(v, 64), Shr(v, 64)>>

\* the top 125 bits of p
Top125(p) == IF BitLen(p) >= 125 THEN Shr(p, BitLen(p) - 125) ELSE Shl(p, 125 - BitLen(p))

\* 5^(12 k) for k in 0..28, and floor(2^(bitlen(5^(12 k)) + 156) / 5^(12 k))
POW5_12 == SubSeq([k \in 1..29 |-> Pow5(12 * (k - 1))], 1, 29)
RECIP5_12 ==
    SubSeq([k \in 1..29 |-> DivPow5(Shl(<<1>>, BitLen(POW5_12[k]) + 156), 12 * (k - 1))],
           1, 29)

\* 5^0 .. 5^341: 5^i = 5^(12 (i \div 12)) * 5^(i % 12), the second factor in
\* two parts below BASE
POW5 ==
    SubSeq([i \in 1..342 |->
               MulSmall(MulSmall(POW5_12[((i - 1) \div 12) + 1], 5^(((i - 1) % 12) \div 2)),
                        5^(((i - 1) % 12) - (((i - 1) % 12) \div 2)))],
           1, 342)

\* entry i + 1 is floor(5^i / 2^(bitlen(5^i) - 125)), for i in 0..325
DOUBLE_POW5_SPLIT == SubSeq([i \in 1..326 |-> Split128(Top125(POW5[i]))], 1, 326)

\* floor(2^(bitlen(5^i) - 1 + 125) / 5^i), from the reciprocal of 5^(12 (i \div 12)):
\* bitlen(5^i) <= bitlen(5^(12 (i \div 12))) + 26, so the shift is to the
\* right, and floor(floor(x / 2^s) / 5^r) = floor(x / (2^s * 5^r))
Recip5(i) ==
    DivPow5(Shr(RECIP5_12[(i \div 12) + 1],
                BitLen(POW5_12[(i \div 12) + 1]) + 156 - (BitLen(POW5[i + 1]) - 1 + 125)),
            i % 12)

\* entry i + 1 is floor(2^(bitlen(5^i) - 1 + 125) / 5^i) + 1, for i in 0..341
DOUBLE_POW5_INV_SPLIT ==
    SubSeq([i \in 1..342 |-> Split128(Add(Recip5(i - 1), <<1>>))], 1, 342)

(***************************************************************************)
(* float2str/d2s.rs                                                        *)
(***************************************************************************)
DOUBLE_MANTISSA_BITS == 52
DOUBLE_EXPONENT_BITS == 11
DOUBLE_BIAS == 1023
DOUBLE_POW5_INV_BITCOUNT == 125
DOUBLE_POW5_BITCOUNT == 125

decimal_length17(v) ==
    IF Lt(v, POW10[1]) THEN 1
    ELSE IF Lt(v, POW10[2]) THEN 2
    ELSE IF Lt(v, POW10[3]) THEN 3
    ELSE IF Lt(v, POW10[4]) THEN 4
    ELSE IF Lt(v, POW10[5]) THEN 5
    ELSE IF Lt(v, POW10[6]) THEN 6
    ELSE IF Lt(v, POW10[7]) THEN 7
    ELSE IF Lt(v, POW10[8]) THEN 8
    ELSE IF Lt(v, POW10[9]) THEN 9
    ELSE IF Lt(v, POW10[10]) THEN 10
    ELSE IF Lt(v, POW10[11]) THEN 11
    ELSE IF Lt(v, POW10[12]) THEN 12
    ELSE IF Lt(v, POW10[13]) THEN 13
    ELSE IF Lt(v, POW10[14]) THEN 14
    ELSE IF Lt(v, POW10[15]) THEN 15
    ELSE IF Lt(v, POW10[16]) THEN 16
    ELSE 17

\* 14757395258967641293 and 3689348814741910323
M_INV_5 == FromDec(<<1475, 7395, 2589, 6764, 1293>>)
N_DIV_5 == FromDec(<<368, 9348, 8147, 4191, 323>>)

\* value * M_INV_5 (wrapping) stays <= N_DIV_5 exactly while value is divisible by 5
pow5_mul_unwrapped(value) == Mul(value, M_INV_5)

\* line 222: value.wrapping_mul(14757395258967641293)
pow5_mul(value) == Trunc(Mul(value, M_INV_5), 64)

RECURSIVE pow5_factor_loop(_, _)
pow5_factor_loop(value, count) ==
    IF Lt(N_DIV_5, pow5_mul(value)) THEN count
    ELSE pow5_factor_loop(pow5_mul(value), count + 1)
multiple_of_power_of_5(value, p) == pow5_factor_loop(value, 0) >= p

mul_shift_64(m, mul, j) ==
    Trunc(Shr(Add(Shr(Mul(m, mul[1]), 64), Mul(m, mul[2])), j - 64), 64)

\* the three scaled values: .vr is the return value, .vp and .vm the out-parameters
mul_shift_all_64(m, mul, j, mm_shift) ==
    [vp |-> mul_shift_64(Add(MulSmall(m, 4), <<2>>), mul, j),
     vm |-> mul_shift_64(Sub(Sub(MulSmall(m, 4), <<1>>), FromNat(mm_shift)), mul, j),
     vr |-> mul_shift_64(MulSmall(m, 4), mul, j)]

\* a normalisation whose binary exponent is one too large
d2d_normalize_doubled(ieee_mantissa, ieee_exponent) ==
    IF ieee_exponent = 0
    THEN [e2 |-> 1 - DOUBLE_BIAS - DOUBLE_MANTISSA_BITS - 1, m2 |-> ieee_mantissa]
    ELSE [e2 |-> ieee_exponent - DOUBLE_BIAS - DOUBLE_MANTISSA_BITS - 1,
          m2 |-> Add(Shl(<<1>>, DOUBLE_MANTISSA_BITS), ieee_mantissa)]

\* step 1: the binary exponent and mantissa
d2d_normalize(ieee_mantissa, ieee_exponent) ==
    IF ieee_exponent = 0
    THEN [e2 |-> 1 - DOUBLE_BIAS - DOUBLE_MANTISSA_BITS - 2, m2 |-> ieee_mantissa]
    ELSE [e2 |-> ieee_exponent - DOUBLE_BIAS - DOUBLE_MANTISSA_BITS - 2,
          m2 |-> Add(Shl(<<1>>, DOUBLE_MANTISSA_BITS), ieee_mantissa)]

\* an mm_shift that looks at the mantissa field only
d2d_mm_shift_mantissa_only(ieee_mantissa, ieee_exponent) == B2N(ieee_mantissa # <<>>)

d2d_mm_shift(ieee_mantissa, ieee_exponent) ==
    B2N(ieee_mantissa # <<>> \/ ieee_exponent <= 1)

\* (x as u32) - k * ((x / k) as u32), wrapping: the remainder as the code computes it
ModByWrap(x, k) ==
    WrappingSub32(AsU32(x), WrappingMul32(FromNat(k), AsU32(DivSmall(x, k))))

\* the locals of d2d / f2d as the digit-removal loops start; passes counts the
\* passes of the loop bodies
Scaled(vr, vp, vm, e10, vm_is_trailing_zeros, vr_is_trailing_zeros, last_removed_digit) ==
    [vr |-> vr, vp |-> vp, vm |-> vm, e10 |-> e10,
     vm_is_trailing_zeros |-> vm_is_trailing_zeros,
     vr_is_trailing_zeros |-> vr_is_trailing_zeros,
     last_removed_digit |-> last_removed_digit, round_up |-> FALSE, removed |-> 0,
     passes |-> 0, pow5_args |-> <<>>]

\* s, after a call of multiple_of_power_of_5 (or _32) with value
Tested(s, value) == [s EXCEPT !.pow5_args = <<value>>]

\* the e2 >= 0 branch without the bound on q
d2d_flags_pos_unbounded(mv, mm_shift, accept_bounds, q, v) ==
    IF ModByWrap(mv, 5) = <<>>
    THEN Tested(Scaled(v.vr, v.vp, v.vm, q, FALSE, multiple_of_power_of_5(mv, q), 0), mv)
    ELSE IF accept_bounds
    THEN Tested(Scaled(v.vr, v.vp, v.vm, q,
                       multiple_of_power_of_5(Sub(Sub(mv, <<1>>), FromNat(mm_shift)), q),
                       FALSE, 0),
                Sub(Sub(mv, <<1>>), FromNat(mm_shift)))
    ELSE Tested(Scaled(v.vr,
                       Sub(v.vp, FromNat(B2N(multiple_of_power_of_5(Add(mv, <<2>>), q)))),
                       v.vm, q, FALSE, FALSE, 0),
                Add(mv, <<2>>))

\* the e2 >= 0 branch of step 3 and 4, once q and the three products v are known
d2d_flags_pos(mv, mm_shift, accept_bounds, q, v) ==
    IF q > 21 THEN Scaled(v.vr, v.vp, v.vm, q, FALSE, FALSE, 0)
    ELSE IF ModByWrap(mv, 5) = <<>>
    THEN Tested(Scaled(v.vr, v.vp, v.vm, q, FALSE, multiple_of_power_of_5(mv, q), 0), mv)
    ELSE IF accept_bounds
    THEN Tested(Scaled(v.vr, v.vp, v.vm, q,
                       multiple_of_power_of_5(Sub(Sub(mv, <<1>>), FromNat(mm_shift)), q),
                       FALSE, 0),
                Sub(Sub(mv, <<1>>), FromNat(mm_shift)))
    ELSE Tested(Scaled(v.vr,
                       Sub(v.vp, FromNat(B2N(multiple_of_power_of_5(Add(mv, <<2>>), q)))),
                       v.vm, q, FALSE, FALSE, 0),
                Add(mv, <<2>>))

d2d_j_pos_without_k(e2, q) == -e2 + q

\* let k = DOUBLE_POW5_INV_BITCOUNT + pow5bits(q) - 1; let i = -e2 + q + k:
\* the shift count passed to mul_shift_all_64 in the e2 >= 0 branch
d2d_j_pos(e2, q) == -e2 + q + DOUBLE_POW5_INV_BITCOUNT + pow5bits(q) - 1

d2d_mul_pos(m2, e2, mm_shift, accept_bounds, q) ==
    d2d_flags_pos(MulSmall(m2, 4), mm_shift, accept_bounds, q,
                  mul_shift_all_64(m2, DOUBLE_POW5_INV_SPLIT[q + 1], d2d_j_pos(e2, q),
                                   mm_shift))

\* an estimate two below log10_pow2(e2)
d2d_q_pos_low(e2) == log10_pow2(e2) - 2 * B2N(e2 > 3)

\* let q = log10_pow2(e2) - (e2 > 3) as u32
d2d_q_pos(e2) == log10_pow2(e2) - B2N(e2 > 3)

d2d_scale_pos(m2, e2, mm_shift, accept_bounds) ==
    d2d_mul_pos(m2, e2, mm_shift, accept_bounds, d2d_q_pos(e2))

\* the e2 < 0 branch of step 3 and 4, once q and the three products v are known
d2d_flags_neg(mv, e2, mm_shift, accept_bounds, q, v) ==
    Scaled(v.vr,
           IF q <= 1 /\ ~accept_bounds THEN Sub(v.vp, <<1>>) ELSE v.vp,
           v.vm,
           q + e2,
           q <= 1 /\ accept_bounds /\ mm_shift = 1,
           IF q <= 1 THEN TRUE ELSE IF q < 63 THEN Trunc(mv, q) = <<>> ELSE FALSE,
           0)

\* let k = pow5bits(i) - DOUBLE_POW5_BITCOUNT; let j = q - k: the shift count
\* passed to mul_shift_all_64 in the e2 < 0 branch
d2d_j_neg(e2, q) == q - (pow5bits(-e2 - q) - DOUBLE_POW5_BITCOUNT)

d2d_mul_neg(m2, e2, mm_shift, accept_bounds, q) ==
    d2d_flags_neg(MulSmall(m2, 4), e2, mm_shift, accept_bounds, q,
                  mul_shift_all_64(m2, DOUBLE_POW5_SPLIT[-e2 - q + 1], d2d_j_neg(e2, q),
                                   mm_shift))

\* the estimate log10_pow5(-e2) itself
d2d_q_neg_unadjusted(e2) == log10_pow5(-e2)

\* let q = log10_pow5(-e2) - (-e2 > 1) as u32
d2d_q_neg(e2) == log10_pow5(-e2) - B2N(-e2 > 1)

d2d_scale_neg(m2, e2, mm_shift, accept_bounds) ==
    d2d_mul_neg(m2, e2, mm_shift, accept_bounds, d2d_q_neg(e2))

d2d_scale(m2, e2, mm_shift, accept_bounds) ==
    IF e2 >= 0 THEN d2d_scale_pos(m2, e2, mm_shift, accept_bounds)
    ELSE d2d_scale_neg(m2, e2, mm_shift, accept_bounds)

\* a loop condition that leaves the loop one pass early when the bounds are adjacent
d2d_more_digits_early(vp, vm) == Lt(Add(DivSmall(vm, 10), <<1>>), DivSmall(vp, 10))

\* the loop condition of every digit-removal loop: stop when vp / 10 <= vm / 10
d2d_more_digits(vp, vm) == Lt(DivSmall(vm, 10), DivSmall(vp, 10))

\* one pass of a digit-removal loop body
d2d_remove_digit(s) ==
    [s EXCEPT !.vm_is_trailing_zeros = s.vm_is_trailing_zeros /\ ModByWrap(s.vm, 10) = <<>>,
              !.vr_is_trailing_zeros = s.vr_is_trailing_zeros /\ s.last_removed_digit = 0,
              !.last_removed_digit = ToNat(Trunc(ModByWrap(s.vr, 10), 8)),
              !.vr = DivSmall(s.vr, 10), !.vp = DivSmall(s.vp, 10),
              !.vm = DivSmall(s.vm, 10), !.removed = s.removed + 1,
              !.passes = s.passes + 1]

\* the first loop of the trailing-zero variant
RECURSIVE d2d_loop1(_)
d2d_loop1(s) == IF d2d_more_digits(s.vp, s.vm) THEN d2d_loop1(d2d_remove_digit(s)) ELSE s

\* the second loop, entered only when vm_is_trailing_zeros: it runs while vm ends
\* in 0, and vm_is_trailing_zeros is not updated in it
RECURSIVE d2d_loop2(_)
d2d_loop2(s) ==
    IF ~s.vm_is_trailing_zeros \/ ModByWrap(s.vm, 10) # <<>> THEN s
    ELSE d2d_loop2([d2d_remove_digit(s) EXCEPT !.vm_is_trailing_zeros = s.vm_is_trailing_zeros])

\* a result with one digit more removed
d2d_result_shifted(s, output) ==
    [mantissa |-> DivSmall(output, 10), exponent |-> s.e10 + s.removed + 1]

\* the FloatingDecimal64 returned: output and e10 + removed
d2d_result(s, output) == [mantissa |-> output, exponent |-> s.e10 + s.removed]

\* the rounding without the tie rule
d2d_round_trailing_half_up(s, accept_bounds) ==
    d2d_result(s,
        Add(s.vr, FromNat(B2N(
            \/ s.vr = s.vm /\ (~accept_bounds \/ ~s.vm_is_trailing_zeros)
            \/ s.last_removed_digit >= 5))))

\* lines 176-180: the rounding of the trailing-zero variant
d2d_round_trailing(s, accept_bounds) ==
    d2d_result(s,
        Add(s.vr, FromNat(B2N(
            \/ s.vr = s.vm /\ (~accept_bounds \/ ~s.vm_is_trailing_zeros)
            \/ (IF s.vr_is_trailing_zeros /\ s.last_removed_digit = 5 /\ ModSmall(s.vr, 2) = 0
                THEN 4 ELSE s.last_removed_digit) >= 5))))

d2d_trailing(s0, accept_bounds) ==
    d2d_round_trailing(d2d_loop2(d2d_loop1(s0)), accept_bounds)

\* the hundred-divide whenever it leaves vp / 100 >= vm / 100
d2d_remove_two_eager(s) ==
    IF ~Lt(DivSmall(s.vp, 100), DivSmall(s.vm, 100))
    THEN [s EXCEPT !.round_up = ~Lt(ModByWrap(s.vr, 100), FromNat(50)),
                   !.vr = DivSmall(s.vr, 100), !.vp = DivSmall(s.vp, 100),
                   !.vm = DivSmall(s.vm, 100), !.removed = s.removed + 2]
    ELSE s

\* the generic variant: the hundred-divide, then the single-digit loop
d2d_remove_two(s) ==
    IF Lt(DivSmall(s.vm, 100), DivSmall(s.vp, 100))
    THEN [s EXCEPT !.round_up = ~Lt(ModByWrap(s.vr, 100), FromNat(50)),
                   !.vr = DivSmall(s.vr, 100), !.vp = DivSmall(s.vp, 100),
                   !.vm = DivSmall(s.vm, 100), !.removed = s.removed + 2]
    ELSE s

RECURSIVE d2d_loop_generic(_)
d2d_loop_generic(s) ==
    IF d2d_more_digits(s.vp, s.vm)
    THEN d2d_loop_generic([s EXCEPT !.round_up = ~Lt(ModByWrap(s.vr, 10), FromNat(5)),
                                    !.vr = DivSmall(s.vr, 10), !.vp = DivSmall(s.vp, 10),
                                    !.vm = DivSmall(s.vm, 10),
                                    !.removed = s.removed + 1,
                                    !.passes = s.passes + 1])
    ELSE s

d2d_round_generic(s) == d2d_result(s, Add(s.vr, FromNat(B2N(s.vr = s.vm \/ s.round_up))))

d2d_generic(s0) == d2d_round_generic(d2d_loop_generic(d2d_remove_two(s0)))

\* step 4: the shortest decimal in the interval, by the variant the flags select
d2d_shorten(s0, accept_bounds) ==
    IF s0.vm_is_trailing_zeros \/ s0.vr_is_trailing_zeros
    THEN d2d_trailing(s0, accept_bounds)
    ELSE d2d_generic(s0)

\* steps 2 to 4, for the normalised n = [e2, m2]
d2d_steps(n, mm_shift) ==
    d2d_shorten(d2d_scale(n.m2, n.e2, mm_shift, ModSmall(n.m2, 2) = 0),
                ModSmall(n.m2, 2) = 0)

d2d(ieee_mantissa, ieee_exponent) ==
    d2d_steps(d2d_normalize(ieee_mantissa, ieee_exponent),
              d2d_mm_shift(ieee_mantissa, ieee_exponent))

\* the locals of one call of d2d as it returns: e2 and m2 of step 1, mm_shift,
\* the estimate of q, q, the table, index and shift count of step 3, the
\* arguments multiple_of_power_of_5 is called with, the locals as the loops
\* of step 4 start (s0) and as they end (s1), and the passes of the loops
NoScaled == Scaled(<<>>, <<>>, <<>>, 0, FALSE, FALSE, 0)

NoLocals == [e2 |-> 0, m2 |-> <<>>, mm_shift |-> 0, accept_bounds |-> FALSE,
             q_est |-> 0, q |-> 0, table |-> "none", index |-> 0, j |-> 0,
             last |-> [evaluated |-> FALSE, vp |-> <<>>, q |-> 0, j |-> 0],
             pow5_args |-> <<>>,
             s0 |-> NoScaled, s1 |-> NoScaled, variant |-> "none", passes |-> 0]

\* the loops of step 4, by the variant the flags select
d2d_loops(s0) ==
    IF s0.vm_is_trailing_zeros \/ s0.vr_is_trailing_zeros
    THEN d2d_loop2(d2d_loop1(s0))
    ELSE d2d_loop_generic(d2d_remove_two(s0))

d2d_passes(s0) == d2d_loops(s0).passes

d2d_locals_at(n, mm_shift, q, s0) ==
    [e2 |-> n.e2, m2 |-> n.m2, mm_shift |-> mm_shift,
     accept_bounds |-> ModSmall(n.m2, 2) = 0,
     q_est |-> IF n.e2 >= 0 THEN log10_pow2(n.e2) ELSE log10_pow5(-n.e2),
     q |-> q,
     table |-> IF n.e2 >= 0 THEN "DOUBLE_POW5_INV_SPLIT" ELSE "DOUBLE_POW5_SPLIT",
     index |-> IF n.e2 >= 0 THEN q ELSE -n.e2 - q,
     j |-> IF n.e2 >= 0 THEN d2d_j_pos(n.e2, q) ELSE d2d_j_neg(n.e2, q),
     last |-> NoLocals.last,
     pow5_args |-> s0.pow5_args,
     s0 |-> s0, s1 |-> d2d_loops(s0),
     variant |-> IF s0.vm_is_trailing_zeros \/ s0.vr_is_trailing_zeros
                 THEN "trailing" ELSE "generic",
     passes |-> d2d_passes(s0)]

d2d_locals_of(n, mm_shift) ==
    d2d_locals_at(n, mm_shift,
                  IF n.e2 >= 0 THEN d2d_q_pos(n.e2) ELSE d2d_q_neg(n.e2),
                  d2d_scale(n.m2, n.e2, mm_shift, ModSmall(n.m2, 2) = 0))

d2d_locals(ieee_mantissa, ieee_exponent) ==
    d2d_locals_of(d2d_normalize(ieee_mantissa, ieee_exponent),
                  d2d_mm_shift(ieee_mantissa, ieee_exponent))
(***************************************************************************)
(* float2str/f2s.rs                                                        *)
(***************************************************************************)
FLOAT_MANTISSA_BITS == 23
FLOAT_EXPONENT_BITS == 8
FLOAT_BIAS == 127
FLOAT_POW5_INV_BITCOUNT == DOUBLE_POW5_INV_BITCOUNT - 64
FLOAT_POW5_BITCOUNT == DOUBLE_POW5_BITCOUNT - 64

\* the body shared by mul_pow5_div_pow2 and mul_pow5_inv_div_pow2:
\* bits0 = m * factor_lo, bits1 = m * factor_hi, sum = (bits0 >> 32) + bits1
mul_shift_32(m, factor, j) ==
    AsU32(Shr(Trunc(Add(Shr(Mul(m, AsU32(factor)), 32),
                        Mul(m, AsU32(Shr(factor, 32)))), 64),
              j - 32))

mul_pow5_div_pow2(m, i, j) == mul_shift_32(m, DOUBLE_POW5_SPLIT[i + 1][2], j)

mul_pow5_inv_div_pow2(m, q, j) ==
    mul_shift_32(m, Trunc(Add(DOUBLE_POW5_INV_SPLIT[q + 1][2], <<1>>), 64), j)

RECURSIVE pow5_factor_32_loop(_, _)
pow5_factor_32_loop(value, count) ==
    IF ModSmall(value, 5) # 0 THEN count
    ELSE pow5_factor_32_loop(DivSmall(value, 5), count + 1)
multiple_of_power_of_5_32(value, p) == pow5_factor_32_loop(value, 0) >= p

\* a normalisation without the implicit leading bit
f2d_normalize_no_implicit_bit(ieee_mantissa, ieee_exponent) ==
    IF ieee_exponent = 0
    THEN [e2 |-> 1 - FLOAT_BIAS - FLOAT_MANTISSA_BITS - 2, m2 |-> ieee_mantissa]
    ELSE [e2 |-> ieee_exponent - FLOAT_BIAS - FLOAT_MANTISSA_BITS - 2, m2 |-> ieee_mantissa]

f2d_normalize(ieee_mantissa, ieee_exponent) ==
    IF ieee_exponent = 0
    THEN [e2 |-> 1 - FLOAT_BIAS - FLOAT_MANTISSA_BITS - 2, m2 |-> ieee_mantissa]
    ELSE [e2 |-> ieee_exponent - FLOAT_BIAS - FLOAT_MANTISSA_BITS - 2,
          m2 |-> Add(Shl(<<1>>, FLOAT_MANTISSA_BITS), ieee_mantissa)]

f2d_mm_shift(ieee_mantissa, ieee_exponent) ==
    B2N(ieee_mantissa # <<>> \/ ieee_exponent <= 1)

\* q != 0 && (vp - 1) / 10 <= vm / 10
f2d_need_last_digit(q, vp, vm) ==
    q # 0 /\ Le(DivSmall(WrappingSub32(vp, <<1>>), 10), DivSmall(vm, 10))

\* mp and mm of step 2
f2d_mp(mv) == Add(mv, <<2>>)
f2d_mm(mv, mm_shift) == Sub(Sub(mv, <<1>>), FromNat(mm_shift))

\* the e2 >= 0 branch of step 3, once q, the three products v and the last
\* removed digit are known
f2d_flags_pos(mv, mm_shift, accept_bounds, q, v, last_removed_digit) ==
    IF q > 9 THEN Scaled(v.vr, v.vp, v.vm, q, FALSE, FALSE, last_removed_digit)
    ELSE IF ModSmall(mv, 5) = 0
    THEN Tested(Scaled(v.vr, v.vp, v.vm, q, FALSE, multiple_of_power_of_5_32(mv, q),
                       last_removed_digit),
                mv)
    ELSE IF accept_bounds
    THEN Tested(Scaled(v.vr, v.vp, v.vm, q,
                       multiple_of_power_of_5_32(f2d_mm(mv, mm_shift), q),
                       FALSE, last_removed_digit),
                f2d_mm(mv, mm_shift))
    ELSE Tested(Scaled(v.vr,
                       Sub(v.vp, FromNat(B2N(multiple_of_power_of_5_32(f2d_mp(mv), q)))),
                       v.vm, q, FALSE, FALSE, last_removed_digit),
                f2d_mp(mv))

\* let l = FLOAT_POW5_INV_BITCOUNT + pow5bits(q - 1) - 1: the shift count
\* -e2 + q - 1 + l of the last removed digit in the e2 >= 0 branch
f2d_l_pos(e2, q) == -e2 + q - 1 + FLOAT_POW5_INV_BITCOUNT + pow5bits(q - 1) - 1

f2d_last_pos(mv, e2, mm_shift, accept_bounds, q, v) ==
    f2d_flags_pos(mv, mm_shift, accept_bounds, q, v,
        IF f2d_need_last_digit(q, v.vp, v.vm)
        THEN ModSmall(mul_pow5_inv_div_pow2(mv, q - 1, f2d_l_pos(e2, q)), 10)
        ELSE 0)

\* vr, vp and vm of the e2 >= 0 branch, for i = -e2 + q + k
f2d_mul_pos(mv, mm_shift, q, i) ==
    [vr |-> mul_pow5_inv_div_pow2(mv, q, i),
     vp |-> mul_pow5_inv_div_pow2(f2d_mp(mv), q, i),
     vm |-> mul_pow5_inv_div_pow2(f2d_mm(mv, mm_shift), q, i)]

\* let k = FLOAT_POW5_INV_BITCOUNT + pow5bits(q) - 1; let i = -e2 + q + k
f2d_j_pos(e2, q) == -e2 + q + FLOAT_POW5_INV_BITCOUNT + pow5bits(q) - 1

f2d_scale_pos(mv, e2, mm_shift, accept_bounds, q) ==
    f2d_last_pos(mv, e2, mm_shift, accept_bounds, q,
        f2d_mul_pos(mv, mm_shift, q, f2d_j_pos(e2, q)))

\* the e2 < 0 branch of step 3, once q, the three products v and the last
\* removed digit are known
f2d_flags_neg(mv, e2, mm_shift, accept_bounds, q, v, last_removed_digit) ==
    Scaled(v.vr,
           IF q <= 1 /\ ~accept_bounds THEN Sub(v.vp, <<1>>) ELSE v.vp,
           v.vm,
           q + e2,
           q <= 1 /\ accept_bounds /\ mm_shift = 1,
           IF q <= 1 THEN TRUE ELSE IF q < 31 THEN Trunc(mv, q - 1) = <<>> ELSE FALSE,
           last_removed_digit)

\* j = q - 1 - (pow5bits(i + 1) - FLOAT_POW5_BITCOUNT): the shift count of the
\* last removed digit in the e2 < 0 branch
f2d_l_neg(e2, q) == q - 1 - (pow5bits(-e2 - q + 1) - FLOAT_POW5_BITCOUNT)

f2d_last_neg(mv, e2, mm_shift, accept_bounds, q, v) ==
    f2d_flags_neg(mv, e2, mm_shift, accept_bounds, q, v,
        IF f2d_need_last_digit(q, v.vp, v.vm)
        THEN ModSmall(mul_pow5_div_pow2(mv, -e2 - q + 1, f2d_l_neg(e2, q)), 10)
        ELSE 0)

\* vr, vp and vm of the e2 < 0 branch, for i = -e2 - q and j = q - k
f2d_mul_neg(mv, mm_shift, i, j) ==
    [vr |-> mul_pow5_div_pow2(mv, i, j),
     vp |-> mul_pow5_div_pow2(f2d_mp(mv), i, j),
     vm |-> mul_pow5_div_pow2(f2d_mm(mv, mm_shift), i, j)]

\* let k = pow5bits(i) - FLOAT_POW5_BITCOUNT; let mut j = q - k
f2d_j_neg(e2, q) == q - (pow5bits(-e2 - q) - FLOAT_POW5_BITCOUNT)

f2d_scale_neg(mv, e2, mm_shift, accept_bounds, q) ==
    f2d_last_neg(mv, e2, mm_shift, accept_bounds, q,
        f2d_mul_neg(mv, mm_shift, -e2 - q, f2d_j_neg(e2, q)))

\* let q = log10_pow2(e2); let q = log10_pow5(-e2)
f2d_q_pos(e2) == log10_pow2(e2)
f2d_q_neg(e2) == log10_pow5(-e2)

f2d_scale(m2, e2, mm_shift, accept_bounds) ==
    IF e2 >= 0 THEN f2d_scale_pos(MulSmall(m2, 4), e2, mm_shift, accept_bounds, f2d_q_pos(e2))
    ELSE f2d_scale_neg(MulSmall(m2, 4), e2, mm_shift, accept_bounds, f2d_q_neg(e2))

\* while vp / 10 > vm / 10
f2d_more_digits(vp, vm) == Lt(DivSmall(vm, 10), DivSmall(vp, 10))

f2d_remove_digit(s) ==
    [s EXCEPT !.vm_is_trailing_zeros =
                  s.vm_is_trailing_zeros
                  /\ Sub(s.vm, MulSmall(DivSmall(s.vm, 10), 10)) = <<>>,
              !.vr_is_trailing_zeros = s.vr_is_trailing_zeros /\ s.last_removed_digit = 0,
              !.last_removed_digit = ModSmall(s.vr, 10),
              !.vr = DivSmall(s.vr, 10), !.vp = DivSmall(s.vp, 10),
              !.vm = DivSmall(s.vm, 10), !.removed = s.removed + 1,
              !.passes = s.passes + 1]

RECURSIVE f2d_loop1(_)
f2d_loop1(s) == IF f2d_more_digits(s.vp, s.vm) THEN f2d_loop1(f2d_remove_digit(s)) ELSE s

\* entered only when vm_is_trailing_zeros, which is not updated in it
RECURSIVE f2d_loop2(_)
f2d_loop2(s) ==
    IF ~s.vm_is_trailing_zeros \/ ModSmall(s.vm, 10) # 0 THEN s
    ELSE f2d_loop2([f2d_remove_digit(s) EXCEPT !.vm_is_trailing_zeros = s.vm_is_trailing_zeros])

f2d_round_trailing(s, accept_bounds) ==
    d2d_result(s,
        Add(s.vr, FromNat(B2N(
            \/ s.vr = s.vm /\ (~accept_bounds \/ ~s.vm_is_trailing_zeros)
            \/ (IF s.vr_is_trailing_zeros /\ s.last_removed_digit = 5 /\ ModSmall(s.vr, 2) = 0
                THEN 4 ELSE s.last_removed_digit) >= 5))))

f2d_trailing(s0, accept_bounds) ==
    f2d_round_trailing(f2d_loop2(f2d_loop1(s0)), accept_bounds)

RECURSIVE f2d_loop_generic(_)
f2d_loop_generic(s) ==
    IF f2d_more_digits(s.vp, s.vm)
    THEN f2d_loop_generic([s EXCEPT !.last_removed_digit = ModSmall(s.vr, 10),
                                    !.vr = DivSmall(s.vr, 10), !.vp = DivSmall(s.vp, 10),
                                    !.vm = DivSmall(s.vm, 10),
                                    !.removed = s.removed + 1,
                                    !.passes = s.passes + 1])
    ELSE s

f2d_round_generic(s) ==
    d2d_result(s, Add(s.vr, FromNat(B2N(s.vr = s.vm \/ s.last_removed_digit >= 5))))

f2d_generic(s0) == f2d_round_generic(f2d_loop_generic(s0))

f2d_shorten(s0, accept_bounds) ==
    IF s0.vm_is_trailing_zeros \/ s0.vr_is_trailing_zeros
    THEN f2d_trailing(s0, accept_bounds)
    ELSE f2d_generic(s0)

f2d_steps(n, mm_shift) ==
    f2d_shorten(f2d_scale(n.m2, n.e2, mm_shift, ModSmall(n.m2, 2) = 0),
                ModSmall(n.m2, 2) = 0)

f2d(ieee_mantissa, ieee_exponent) ==
    f2d_steps(f2d_normalize(ieee_mantissa, ieee_exponent),
              f2d_mm_shift(ieee_mantissa, ieee_exponent))

\* the locals of one call of f2d as it returns
f2d_loops(s0) ==
    IF s0.vm_is_trailing_zeros \/ s0.vr_is_trailing_zeros
    THEN f2d_loop2(f2d_loop1(s0))
    ELSE f2d_loop_generic(s0)

f2d_passes(s0) == f2d_loops(s0).passes

\* lines 54-56 and 76-78: vp as `vp - 1` is evaluated, and q - 1 (or i + 1) and
\* the shift count of the second multiplication when it is made
f2d_last_locals(mv, e2, mm_shift, q) ==
    [evaluated |-> q # 0,
     vp |-> IF e2 >= 0
            THEN f2d_mul_pos(mv, mm_shift, q, f2d_j_pos(e2, q)).vp
            ELSE f2d_mul_neg(mv, mm_shift, -e2 - q, f2d_j_neg(e2, q)).vp,
     q |-> q - 1,
     j |-> IF e2 >= 0 THEN f2d_l_pos(e2, q) ELSE f2d_l_neg(e2, q)]

f2d_locals_at(n, mm_shift, q, s0) ==
    [e2 |-> n.e2, m2 |-> n.m2, mm_shift |-> mm_shift,
     accept_bounds |-> ModSmall(n.m2, 2) = 0,
     q_est |-> q,
     q |-> q,
     table |-> IF n.e2 >= 0 THEN "DOUBLE_POW5_INV_SPLIT" ELSE "DOUBLE_POW5_SPLIT",
     index |-> IF n.e2 >= 0 THEN q ELSE -n.e2 - q,
     j |-> IF n.e2 >= 0 THEN f2d_j_pos(n.e2, q) ELSE f2d_j_neg(n.e2, q),
     last |-> f2d_last_locals(MulSmall(n.m2, 4), n.e2, mm_shift, q),
     pow5_args |-> s0.pow5_args,
     s0 |-> s0, s1 |-> f2d_loops(s0),
     variant |-> IF s0.vm_is_trailing_zeros \/ s0.vr_is_trailing_zeros
                 THEN "trailing" ELSE "generic",
     passes |-> f2d_passes(s0)]

f2d_locals_of(n, mm_shift) ==
    f2d_locals_at(n, mm_shift,
                  IF n.e2 >= 0 THEN f2d_q_pos(n.e2) ELSE f2d_q_neg(n.e2),
                  f2d_scale(n.m2, n.e2, mm_shift, ModSmall(n.m2, 2) = 0))

f2d_locals(ieee_mantissa, ieee_exponent) ==
    f2d_locals_of(f2d_normalize(ieee_mantissa, ieee_exponent),
                  f2d_mm_shift(ieee_mantissa, ieee_exponent))
(***************************************************************************)
(* float2str/pretty.rs                                                     *)
(*                                                                         *)
(* The raw pointer `result` is offset 0 of the caller's buffer.  A memory  *)
(* is [b |-> the byte at each offset that exists or was written,           *)
(* w |-> the set of offsets written so far], so that a write outside the   *)
(* buffer is recorded rather than lost.                                    *)
(***************************************************************************)
B_MINUS == 45
B_DOT == 46
B_0 == 48
B_E == 101

DIGIT_TABLE == [i \in 0..199 |-> IF i % 2 = 0 THEN B_0 + ((i \div 2) \div 10)
                                 ELSE B_0 + ((i \div 2) % 10)]

\* *result.offset(off) = byte
Poke(mem, off, byte) == [b |-> (off :> byte) @@ mem.b, w |-> mem.w \cup {off}]
\* for i in from..to { *result.offset(i) = byte }
PokeRange(mem, from, to, byte) ==
    [b |-> [o \in from..(to - 1) |-> byte] @@ mem.b, w |-> mem.w \cup (from..(to - 1))]
\* ptr::copy_nonoverlapping(src.as_ptr(), result.offset(off), Len(src))
PokeSeq(mem, off, src) ==
    [b |-> [o \in off..(off + Len(src) - 1) |-> src[o - off + 1]] @@ mem.b,
     w |-> mem.w \cup (off..(off + Len(src) - 1))]
\* ptr::copy_nonoverlapping(DIGIT_TABLE.as_ptr().offset(c), result.offset(off), 2)
PokeDigits(mem, c, off) == PokeSeq(mem, off, <<DIGIT_TABLE[c], DIGIT_TABLE[c + 1]>>)
\* the four digits of c: c0 = (c % 100) << 1 at result - 2, c1 = (c / 100) << 1 at result - 4
PokeFour(mem, c, result) ==
    PokeDigits(PokeDigits(mem, (c % 100) * 2, result - 2), (c \div 100) * 2, result - 4)
\* a move that leaves the last byte where it was
MoveBytes_one_short(mem, src, dst, n) ==
    [b |-> [o \in dst..(dst + n - 2) |-> mem.b[o - dst + src]] @@ mem.b,
     w |-> mem.w \cup (dst..(dst + n - 2))]

\* ptr::copy(result.offset(src), result.offset(dst), n): a memmove
MoveBytes(mem, src, dst, n) ==
    [b |-> [o \in dst..(dst + n - 1) |-> mem.b[o - dst + src]] @@ mem.b,
     w |-> mem.w \cup (dst..(dst + n - 1))]

\* an exponent writer that takes a one-digit exponent from the two-digit table
write_exponent3_padded(k0, result, mem) ==
    LET sign == k0 < 0
        m1 == IF sign THEN Poke(mem, result, B_MINUS) ELSE mem
        r == IF sign THEN result + 1 ELSE result
        k == IF sign THEN -k0 ELSE k0
    IN IF k >= 100
       THEN [mem |-> PokeDigits(Poke(m1, r, B_0 + ((k \div 100) % 256)), (k % 100) * 2, r + 1),
             n |-> B2N(sign) + 3]
       ELSE [mem |-> PokeDigits(m1, k * 2, r), n |-> B2N(sign) + 2]

\* the result is the memory and the number of bytes written
write_exponent3(k0, result, mem) ==
    LET sign == k0 < 0
        m1 == IF sign THEN Poke(mem, result, B_MINUS) ELSE mem
        r == IF sign THEN result + 1 ELSE result
        k == IF sign THEN -k0 ELSE k0
    IN IF k >= 100
       THEN [mem |-> PokeDigits(Poke(m1, r, B_0 + ((k \div 100) % 256)), (k % 100) * 2, r + 1),
             n |-> B2N(sign) + 3]
       ELSE IF k >= 10
       THEN [mem |-> PokeDigits(m1, k * 2, r), n |-> B2N(sign) + 2]
       ELSE [mem |-> Poke(m1, r, B_0 + k), n |-> B2N(sign) + 1]

\* an exponent writer that ends the text with a NUL byte
write_exponent2_terminated(k0, result, mem) ==
    LET sign == k0 < 0
        m1 == IF sign THEN Poke(mem, result, B_MINUS) ELSE mem
        r == IF sign THEN result + 1 ELSE result
        k == IF sign THEN -k0 ELSE k0
    IN IF k >= 10
       THEN [mem |-> Poke(PokeDigits(m1, k * 2, r), r + 2, 0), n |-> B2N(sign) + 2]
       ELSE [mem |-> Poke(Poke(m1, r, B_0 + k), r + 1, 0), n |-> B2N(sign) + 1]

write_exponent2(k0, result, mem) ==
    LET sign == k0 < 0
        m1 == IF sign THEN Poke(mem, result, B_MINUS) ELSE mem
        r == IF sign THEN result + 1 ELSE result
        k == IF sign THEN -k0 ELSE k0
    IN IF k >= 10
       THEN [mem |-> PokeDigits(m1, k * 2, r), n |-> B2N(sign) + 2]
       ELSE [mem |-> Poke(m1, r, B_0 + k), n |-> B2N(sign) + 1]

\* write_mantissa after its while loop, for output < 10000: the last one or two digits
write_mantissa_last(output, result, mem) ==
    IF output >= 10 THEN PokeDigits(mem, output * 2, result - 2)
    ELSE Poke(mem, result - 1, (B_0 + output) % 256)

\* write_mantissa after its while loop, for output < 10000: two digits if output >= 100
write_mantissa_tail(output, result, mem) ==
    IF output >= 100
    THEN write_mantissa_last(output \div 100, result - 2,
                             PokeDigits(mem, (output % 100) * 2, result - 2))
    ELSE write_mantissa_last(output, result, mem)

\* the while loop takes four digits a pass: c = output - 10000 * (output / 10000)
RECURSIVE write_mantissa(_, _, _)
write_mantissa(output, result, mem) ==
    IF Lt(output, FromNat(10000)) THEN write_mantissa_tail(ToNat(output), result, mem)
    ELSE write_mantissa(DivSmall(output, 10000), result - 4,
                        PokeFour(mem, ToNat(Sub(output, MulSmall(DivSmall(output, 10000), 10000))),
                                 result))

\* the eight digits of output2 = c + 10000 * d, below result
PokeEight(mem, output2, result) ==
    PokeFour(PokeFour(mem, output2 % 10000, result),
             (output2 \div 10000) % 10000, result - 4)

write_mantissa_long(output, result, mem) ==
    IF Shr(output, 32) # <<>>
    THEN write_mantissa(
             AsU32(DivSmall(DivSmall(output, 10000), 10000)),
             result - 8,
             PokeEight(mem,
                       ToNat(AsU32(Sub(output, Mul(POW10[8],
                                                   DivSmall(DivSmall(output, 10000), 10000))))),
                       result))
    ELSE write_mantissa(AsU32(output), result, mem)

\* a 64-bit upper threshold that is one too small
FixedUpper64_less_one == 16 - 1
\* kk <= 16
FixedUpper64 == 16
\* the 32-bit lower threshold used for 64 bits
FixedLower64_of_f32 == 0 - 6
\* -5 < kk
FixedLower64 == -5
\* kk <= 13
FixedUpper32 == 13
\* the 64-bit lower threshold used for 32 bits
FixedLower32_of_f64 == 0 - 5
\* -6 < kk
FixedLower32 == -6

\* *result.offset(dst) = *result.offset(src)
CopyByte(mem, src, dst) == Poke(mem, dst, mem.b[src])

\* the count returned after an exponent: the bytes before it and its own
WithExponent(before, e) == [mem |-> e.mem, n |-> before + e.n]

\* the layout of the digits of v, `length` of them, behind the sign at `index`
format64_layout(v, length, index, mem) ==
    LET kk == length + v.exponent
    IN IF 0 <= v.exponent /\ kk <= FixedUpper64
       THEN [mem |-> Poke(Poke(PokeRange(write_mantissa_long(v.mantissa, index + length, mem),
                                         index + length, index + kk, B_0),
                               index + kk, B_DOT),
                          index + kk + 1, B_0),
             n |-> index + kk + 2]
       ELSE IF 0 < kk /\ kk <= FixedUpper64
       THEN [mem |-> Poke(MoveBytes(write_mantissa_long(v.mantissa, index + length + 1, mem),
                                    index + 1, index, kk),
                          index + kk, B_DOT),
             n |-> index + length + 1]
       ELSE IF FixedLower64 < kk /\ kk <= 0
       THEN [mem |-> write_mantissa_long(
                         v.mantissa, index + length + 2 - kk,
                         PokeRange(Poke(Poke(mem, index, B_0), index + 1, B_DOT),
                                   index + 2, index + 2 - kk, B_0)),
             n |-> index + length + 2 - kk]
       ELSE IF length = 1
       THEN WithExponent(index + 2,
                write_exponent3(kk - 1, index + 2,
                    Poke(Poke(mem, index, (B_0 + ToNat(Trunc(v.mantissa, 8))) % 256),
                         index + 1, B_E)))
       ELSE WithExponent(index + length + 2,
                write_exponent3(kk - 1, index + length + 2,
                    Poke(Poke(CopyByte(write_mantissa_long(v.mantissa, index + length + 1, mem),
                                       index + 1, index),
                              index + 1, B_DOT),
                         index + length + 1, B_E)))

format32_layout(v, length, index, mem) ==
    LET kk == length + v.exponent
    IN IF 0 <= v.exponent /\ kk <= FixedUpper32
       THEN [mem |-> Poke(Poke(PokeRange(write_mantissa(v.mantissa, index + length, mem),
                                         index + length, index + kk, B_0),
                               index + kk, B_DOT),
                          index + kk + 1, B_0),
             n |-> index + kk + 2]
       ELSE IF 0 < kk /\ kk <= FixedUpper32
       THEN [mem |-> Poke(MoveBytes(write_mantissa(v.mantissa, index + length + 1, mem),
                                    index + 1, index, kk),
                          index + kk, B_DOT),
             n |-> index + length + 1]
       ELSE IF FixedLower32 < kk /\ kk <= 0
       THEN [mem |-> write_mantissa(
                         v.mantissa, index + length + 2 - kk,
                         PokeRange(Poke(Poke(mem, index, B_0), index + 1, B_DOT),
                                   index + 2, index + 2 - kk, B_0)),
             n |-> index + length + 2 - kk]
       ELSE IF length = 1
       THEN WithExponent(index + 2,
                write_exponent2(kk - 1, index + 2,
                    Poke(Poke(mem, index, (B_0 + ToNat(Trunc(v.mantissa, 8))) % 256),
                         index + 1, B_E)))
       ELSE WithExponent(index + length + 2,
                write_exponent2(kk - 1, index + length + 2,
                    Poke(Poke(CopyByte(write_mantissa(v.mantissa, index + length + 1, mem),
                                       index + 1, index),
                              index + 1, B_DOT),
                         index + length + 1, B_E)))

ZERO_STR == <<B_0, B_DOT, B_0>>
NoDecimal == [mantissa |-> <<>>, exponent |-> 0]

\* what a renderer hands back: [mem, n] and, for the properties, which engine
\* ran and what it returned
Rendered(r, engine_name, v) ==
    [mem |-> r.mem, n |-> r.n, engine |-> engine_name, v |-> v, locals |-> NoLocals]

\* the same, with the locals of the engine's call
WithLocals(r, locals) == [r EXCEPT !.locals = locals]

\* let v = d2d(..); let length = decimal_length17(v.mantissa); then the layout
format64_digits(v, index, mem) ==
    Rendered(format64_layout(v, decimal_length17(v.mantissa), index, mem), "d2d", v)

format32_digits(v, index, mem) ==
    Rendered(format32_layout(v, decimal_length9(v.mantissa), index, mem), "f2d", v)

\* a renderer whose zero branch writes "0.0" at offset 0, over the sign
format64_zero_at_0(f, mem) ==
    LET sign == Trunc(Shr(f, DOUBLE_MANTISSA_BITS + DOUBLE_EXPONENT_BITS), 1) # <<>>
        ieee_mantissa == Trunc(f, DOUBLE_MANTISSA_BITS)
        ieee_exponent == ToNat(Trunc(AsU32(Shr(f, DOUBLE_MANTISSA_BITS)), DOUBLE_EXPONENT_BITS))
        m0 == IF sign THEN Poke(mem, 0, B_MINUS) ELSE mem
        index == B2N(sign)
    IN IF ieee_exponent = 0 /\ ieee_mantissa = <<>>
       THEN [mem |-> PokeSeq(m0, 0, ZERO_STR), n |-> B2N(sign) + 3,
             engine |-> "none", v |-> NoDecimal, locals |-> NoLocals]
       ELSE WithLocals(format64_digits(d2d(ieee_mantissa, ieee_exponent), index, m0),
                       d2d_locals(ieee_mantissa, ieee_exponent))

format64(f, mem) ==
    LET sign == Trunc(Shr(f, DOUBLE_MANTISSA_BITS + DOUBLE_EXPONENT_BITS), 1) # <<>>
        ieee_mantissa == Trunc(f, DOUBLE_MANTISSA_BITS)
        ieee_exponent == ToNat(Trunc(AsU32(Shr(f, DOUBLE_MANTISSA_BITS)), DOUBLE_EXPONENT_BITS))
        m0 == IF sign THEN Poke(mem, 0, B_MINUS) ELSE mem
        index == B2N(sign)
    IN IF ieee_exponent = 0 /\ ieee_mantissa = <<>>
       THEN [mem |-> PokeSeq(m0, index, ZERO_STR), n |-> B2N(sign) + 3,
             engine |-> "none", v |-> NoDecimal, locals |-> NoLocals]
       ELSE WithLocals(format64_digits(d2d(ieee_mantissa, ieee_exponent), index, m0),
                       d2d_locals(ieee_mantissa, ieee_exponent))

\* a renderer that writes the digits at offset 0, over the sign
format32_index_0(f, mem) ==
    LET sign == Trunc(Shr(f, FLOAT_MANTISSA_BITS + FLOAT_EXPONENT_BITS), 1) # <<>>
        ieee_mantissa == Trunc(f, FLOAT_MANTISSA_BITS)
        ieee_exponent == ToNat(Trunc(Shr(f, FLOAT_MANTISSA_BITS), FLOAT_EXPONENT_BITS))
        m0 == IF sign THEN Poke(mem, 0, B_MINUS) ELSE mem
        index == 0
    IN IF ieee_exponent = 0 /\ ieee_mantissa = <<>>
       THEN [mem |-> PokeSeq(m0, index, ZERO_STR), n |-> B2N(sign) + 3,
             engine |-> "none", v |-> NoDecimal, locals |-> NoLocals]
       ELSE WithLocals(format32_digits(f2d(ieee_mantissa, ieee_exponent), index, m0),
                       f2d_locals(ieee_mantissa, ieee_exponent))

format32(f, mem) ==
    LET sign == Trunc(Shr(f, FLOAT_MANTISSA_BITS + FLOAT_EXPONENT_BITS), 1) # <<>>
        ieee_mantissa == Trunc(f, FLOAT_MANTISSA_BITS)
        ieee_exponent == ToNat(Trunc(Shr(f, FLOAT_MANTISSA_BITS), FLOAT_EXPONENT_BITS))
        m0 == IF sign THEN Poke(mem, 0, B_MINUS) ELSE mem
        index == B2N(sign)
    IN IF ieee_exponent = 0 /\ ieee_mantissa = <<>>
       THEN [mem |-> PokeSeq(m0, index, ZERO_STR), n |-> B2N(sign) + 3,
             engine |-> "none", v |-> NoDecimal, locals |-> NoLocals]
       ELSE WithLocals(format32_digits(f2d(ieee_mantissa, ieee_exponent), index, m0),
                       f2d_locals(ieee_mantissa, ieee_exponent))

(***************************************************************************)
(* utils_core/impl_to_ascii.rs: ftoa_buf_f32, ftoa_buf_f64                 *)
(***************************************************************************)
F2STR_LEN == 24

NAN_STR == <<78, 65, 78>>
INFINITY_STR == <<73, 78, 70, 73, 78, 73, 84, 89>>
NEG_INFINITY_STR == <<78, 69, 71, 95>> \o INFINITY_STR

\* bits & mask, for the mask with `width` one bits from bit `lo` up
AndMask(x, lo, width) == Shl(Trunc(Shr(x, lo), width), lo)
Mask(lo, width) == Shl(Sub(Shl(<<1>>, width), <<1>>), lo)

\* core::slice::from_raw_parts(buf.as_ptr(), n)
SliceOf(mem, n) == [i \in 1..n |-> mem.b[i - 1]]

\* a special value: a literal of the program, the buffer untouched
Literal(mem, bytes) ==
    [mem |-> mem, static |-> TRUE, engine |-> "none", v |-> NoDecimal, locals |-> NoLocals,
     bytes |-> bytes]

\* let n = format64(f, buf.as_mut_ptr()): the first n bytes of the buffer
Borrowed(r) ==
    [mem |-> r.mem, static |-> FALSE, engine |-> r.engine, v |-> r.v, locals |-> r.locals,
     bytes |-> SliceOf(r.mem, r.n)]

\* an entry point that tests the sign bit before the mantissa field
ftoa_buf_f64_sign_first(mem, f) ==
    IF AndMask(f, 52, 11) = Mask(52, 11)
    THEN Literal(mem, IF AndMask(f, 63, 1) # <<>> THEN NEG_INFINITY_STR
                      ELSE IF AndMask(f, 0, 52) # <<>> THEN NAN_STR
                      ELSE INFINITY_STR)
    ELSE Borrowed(format64(f, mem))

\* the returned slice is a literal (static) or borrows the buffer
ftoa_buf_f32(mem, f) ==
    IF AndMask(f, 23, 8) = Mask(23, 8)
    THEN Literal(mem, IF AndMask(f, 0, 23) # <<>> THEN NAN_STR
                      ELSE IF AndMask(f, 31, 1) # <<>> THEN NEG_INFINITY_STR
                      ELSE INFINITY_STR)
    ELSE Borrowed(format32(f, mem))

ftoa_buf_f64(mem, f) ==
    IF AndMask(f, 52, 11) = Mask(52, 11)
    THEN Literal(mem, IF AndMask(f, 0, 52) # <<>> THEN NAN_STR
                      ELSE IF AndMask(f, 63, 1) # <<>> THEN NEG_INFINITY_STR
                      ELSE INFINITY_STR)
    ELSE Borrowed(format64(f, mem))


(***************************************************************************)
(* replace_multiple_patterns (proc-tools-core/src/lib.rs).  A string is    *)
(* the sequence of its UTF-8 bytes; byte offsets are counted from 0 as in  *)
(* the code, so offset p is element p + 1 of the sequence.  The result     *)
(* String is the sequence `out` of the bytes written so far (the code      *)
(* writes at write_pos and advances it, so the written bytes are           *)
(* contiguous from offset 0) together with the capacity it was allocated   *)
(* with.  The scan loop is modelled one iteration per step.                *)
(***************************************************************************)
MaxInputChars == 3
MaxPatterns == 2

\* the characters inputs are made of: 'a', 'b' and the two-byte U+00E9
InputChars == {<<97>>, <<98>>, <<195, 169>>}

RECURSIVE StringsOf(_)
StringsOf(n) ==
    IF n = 0 THEN {<<>>}
    ELSE {<<>>} \cup {c \o s : c \in InputChars, s \in StringsOf(n - 1)}

\* the (pattern, replacement) pairs pattern lists are made of
PatternPairs ==
    { <<<<97>>, <<97, 97, 98>>>>,          \* ("a", "aab")
      <<<<97, 98>>, <<98>>>>,              \* ("ab", "b")
      <<<<>>, <<120>>>>,                   \* ("", "x")
      <<<<98>>, <<>>>>,                    \* ("b", "")
      <<<<195, 169>>, <<97>>>>,            \* ("U+00E9", "a")
      <<<<97, 97, 98>>, <<195, 169>>>> }   \* ("aab", "U+00E9")

RECURSIVE PatternLists(_)
PatternLists(n) ==
    IF n = 0 THEN {<<>>}
    ELSE {<<>>} \cup {<<p>> \o l : p \in PatternPairs, l \in PatternLists(n - 1)}

\* "abcde" with [("bc", "Y"), ("abc", "X")], and the call of the documentation
NamedReplace ==
    { [input |-> <<97, 98, 99, 100, 101>>,
       patterns |-> << <<<<98, 99>>, <<89>>>>, <<<<97, 98, 99>>, <<88>>>> >>],
      [input |-> <<72, 105, 32, 82, 117, 115, 116, 33>>,
       patterns |-> << <<<<72, 105>>, <<72, 101, 121>>>>,
                       <<<<82, 117, 115, 116>>, <<82, 117, 115, 116, 32, 112>>>> >>] }

ReplaceInputs ==
    NamedReplace \cup
    {[input |-> s, patterns |-> l] : s \in StringsOf(MaxInputChars), l \in PatternLists(MaxPatterns)}

rmp_precompute_unfiltered(patterns) ==
    [k \in 1..Len(patterns) |->
        [pattern |-> patterns[k][1], replacement |-> patterns[k][2], len |-> Len(patterns[k][1])]]

\* lines 95-102: the patterns with their lengths, empty patterns skipped
RECURSIVE rmp_precompute(_)
rmp_precompute(patterns) ==
    IF patterns = <<>> THEN <<>>
    ELSE IF Head(patterns)[1] = <<>> THEN rmp_precompute(Tail(patterns))
    ELSE <<[pattern |-> Head(patterns)[1],
            replacement |-> Head(patterns)[2],
            len |-> Len(Head(patterns)[1])]>> \o rmp_precompute(Tail(patterns))

\* lines 109-114: the input length plus, for every growing pattern, its growth
\* times the number of times it fits in the input
RECURSIVE rmp_growth(_, _)
rmp_growth(input_len, pre) ==
    IF pre = <<>> THEN 0
    ELSE (IF Len(Head(pre).replacement) > Len(Head(pre).pattern)
          THEN (Len(Head(pre).replacement) - Len(Head(pre).pattern))
               * (input_len \div Max(Len(Head(pre).pattern), 1))
          ELSE 0) + rmp_growth(input_len, Tail(pre))

\* line 115: capped at twice the input length
rmp_capacity(input, pre) ==
    IF Len(input) + rmp_growth(Len(input), pre) < Len(input) * 2
    THEN Len(input) + rmp_growth(Len(input), pre)
    ELSE Len(input) * 2

\* lines 133-150: the pattern fits at read_pos and every byte compares equal
rmp_matches(input, read_pos, p) ==
    /\ read_pos + p.len <= Len(input)
    /\ \A i \in 0..(p.len - 1) : input[read_pos + i + 1] = p.pattern[i + 1]

rmp_last_match(input, read_pos, pre) ==
    IF \E k \in 1..Len(pre) : rmp_matches(input, read_pos, pre[k])
    THEN CHOOSE k \in 1..Len(pre) :
            /\ rmp_matches(input, read_pos, pre[k])
            /\ \A j \in (k + 1)..Len(pre) : ~rmp_matches(input, read_pos, pre[j])
    ELSE 0

\* lines 131-158: the first pattern of the list that matches at read_pos (0: none)
rmp_first_match(input, read_pos, pre) ==
    IF \E k \in 1..Len(pre) : rmp_matches(input, read_pos, pre[k])
    THEN CHOOSE k \in 1..Len(pre) :
            /\ rmp_matches(input, read_pos, pre[k])
            /\ \A j \in 1..(k - 1) : ~rmp_matches(input, read_pos, pre[j])
    ELSE 0

\* lines 170-178: the length of a character from its first byte
rmp_char_len(current_byte) ==
    IF current_byte \div 32 = 6 THEN 2
    ELSE IF current_byte \div 16 = 14 THEN 3
    ELSE IF current_byte \div 8 = 30 THEN 4
    ELSE 1

\* line 181
rmp_actual_len(input, read_pos) ==
    IF rmp_char_len(input[read_pos + 1]) < Len(input) - read_pos
    THEN rmp_char_len(input[read_pos + 1])
    ELSE Len(input) - read_pos

NoReplace ==
    [input |-> <<>>, patterns |-> <<>>, pre |-> <<>>, capacity |-> 0, out |-> <<>>,
     write_pos |-> 0, read_pos |-> 0, extent |-> 0, len |-> 0, iterations |-> 0, last |-> "none"]

(***************************************************************************)
(* itoa_buf_i8 .. itoa_buf_u128 (impl_to_ascii.rs), the instances of the   *)
(* macros impl_itoa_signed and impl_itoa_unsigned.  An integer is its sign *)
(* and its magnitude, [neg, mag], the magnitude an unsigned value as       *)
(* above; the buffer is the sequence of its bytes, offset o being element    *)
(* o + 1.                                                                  *)
(***************************************************************************)
I82STR_LEN == 4
I162STR_LEN == 6
I322STR_LEN == 11
I642STR_LEN == 20
I1282STR_LEN == 40
U82STR_LEN == 3
U162STR_LEN == 5
U322STR_LEN == 10
U642STR_LEN == 20
U1282STR_LEN == 39

SignedTypes == {"i8", "i16", "i32", "i64", "i128"}
UnsignedTypes == {"u8", "u16", "u32", "u64", "u128"}
IntTypes == SignedTypes \cup UnsignedTypes

IntBits(t) ==
    CASE t \in {"i8", "u8"} -> 8
      [] t \in {"i16", "u16"} -> 16
      [] t \in {"i32", "u32"} -> 32
      [] t \in {"i64", "u64"} -> 64
      [] t \in {"i128", "u128"} -> 128

\* $buf_size of the instance
IntBufSize(t) ==
    CASE t = "i8" -> I82STR_LEN
      [] t = "i16" -> I162STR_LEN
      [] t = "i32" -> I322STR_LEN
      [] t = "i64" -> I642STR_LEN
      [] t = "i128" -> I1282STR_LEN
      [] t = "u8" -> U82STR_LEN
      [] t = "u16" -> U162STR_LEN
      [] t = "u32" -> U322STR_LEN
      [] t = "u64" -> U642STR_LEN
      [] t = "u128" -> U1282STR_LEN

\* $min_str of the instance
IntMinStr(t) ==
    CASE t = "i8" -> <<45, 49, 50, 56>>
      [] t = "i16" -> <<45, 51, 50, 55, 54, 56>>
      [] t = "i32" -> <<45, 50, 49, 52, 55, 52, 56, 51, 54, 52, 56>>
      [] t = "i64" -> <<45, 57, 50, 50, 51, 51, 55, 50, 48, 51, 54, 56, 53, 52, 55, 55, 53, 56,
                        48, 56>>
      [] t = "i128" -> <<45, 49, 55, 48, 49, 52, 49, 49, 56, 51, 52, 54, 48, 52, 54, 57, 50, 51,
                         49, 55, 51, 49, 54, 56, 55, 51, 48, 51, 55, 49, 53, 56, 56, 52, 49, 48,
                         53, 55, 50, 56>>

\* <$ty>::MIN and <$ty>::MAX
IntMin(t) == [neg |-> TRUE, mag |-> Shl(<<1>>, IntBits(t) - 1)]
IntMax(t) ==
    [neg |-> FALSE,
     mag |-> Sub(Shl(<<1>>, IF t \in SignedTypes THEN IntBits(t) - 1 ELSE IntBits(t)), <<1>>)]

\* let mut buf = [0u8; $buf_size]
FreshIntBuf(t) == [o \in 1..IntBufSize(t) |-> 0]

itoa_never_min(t, i) == FALSE

\* i == <$ty>::MIN
itoa_is_min(t, i) == i = IntMin(t)

\* -i; the negation of MIN overflows and, wrapping, gives MIN again
int_neg(t, i) ==
    IF i = IntMin(t) THEN i
    ELSE [neg |-> ~i.neg /\ i.mag # <<>>, mag |-> i.mag]

\* a literal is returned, the buffer is not touched
ItoaLiteral(mem, bytes, overflow) ==
    [mem |-> mem, idx |-> Len(mem), static |-> TRUE, bytes |-> bytes,
     overflow |-> overflow, panic |-> FALSE]

\* &i_buffer[idx..]
ItoaSlice(mem, idx, overflow, panic) ==
    [mem |-> mem, idx |-> idx, static |-> FALSE,
     bytes |-> IF panic THEN <<>> ELSE SubSeq(mem, idx + 1, Len(mem)),
     overflow |-> overflow, panic |-> panic]

\* while i > 0 { idx -= 1; i_buffer[idx] = b'0' + (i % 10) as u8; i /= 10; }
\* idx -= 1 at idx = 0 panics (or wraps, and the indexing panics)
RECURSIVE itoa_loop(_, _, _)
itoa_loop(i, idx, mem) ==
    IF i.neg \/ i.mag = <<>> THEN [idx |-> idx, mem |-> mem, panic |-> FALSE]
    ELSE IF idx = 0 THEN [idx |-> idx, mem |-> mem, panic |-> TRUE]
    ELSE After(mem, itoa_loop([neg |-> FALSE, mag |-> DivSmall(i.mag, 10)], idx - 1,
                              [mem EXCEPT ![idx] = 48 + ModSmall(i.mag, 10)]))

\* if flag { idx -= 1; i_buffer[idx] = b'-'; }
itoa_sign(l, flag, overflow) ==
    IF l.panic THEN ItoaSlice(l.mem, l.idx, overflow, TRUE)
    ELSE IF ~flag THEN ItoaSlice(l.mem, l.idx, overflow, FALSE)
    ELSE IF l.idx = 0 THEN ItoaSlice(l.mem, l.idx, overflow, TRUE)
    ELSE ItoaSlice([l.mem EXCEPT ![l.idx] = 45], l.idx - 1, overflow, FALSE)

\* the common end of the two macros: "0", or the digits and then the sign
itoa_digits(mem, i, flag, overflow) ==
    IF i.mag = <<>> THEN ItoaLiteral(mem, <<48>>, overflow)
    ELSE itoa_sign(itoa_loop(i, Len(mem), mem), flag, overflow)

\* impl_itoa_signed: the function body
itoa_signed(t, i_buffer, i) ==
    IF itoa_is_min(t, i) THEN ItoaLiteral(i_buffer, IntMinStr(t), FALSE)
    ELSE IF i.neg THEN itoa_digits(i_buffer, int_neg(t, i), TRUE, i = IntMin(t))
    ELSE itoa_digits(i_buffer, i, FALSE, FALSE)

\* impl_itoa_unsigned: the function body
itoa_unsigned(t, i_buffer, i) == itoa_digits(i_buffer, i, FALSE, FALSE)

\* itoa_buf_<t>(&mut buf, i)
itoa_buf(t, i_buffer, i) ==
    IF t \in SignedTypes THEN itoa_signed(t, i_buffer, i) ELSE itoa_unsigned(t, i_buffer, i)

(***************************************************************************)
(* The integers a call is made on: for every type its MIN and MAX and      *)
(* their neighbours, the powers of ten and their predecessors, and the     *)
(* magnitudes up to MaxSmallInt, with both signs for a signed type.        *)
(***************************************************************************)
MaxSmallInt == 255
MaxPow10 == 38

Magnitudes ==
    {FromNat(n) : n \in 0..MaxSmallInt}
    \cup {Pow10(k) : k \in 1..MaxPow10}
    \cup {Sub(Pow10(k), <<1>>) : k \in 1..MaxPow10}
    \cup {IntMax(t).mag : t \in IntTypes}
    \cup {Sub(IntMax(t).mag, <<1>>) : t \in IntTypes}
    \cup {IntMin(t).mag : t \in SignedTypes}

IntValues(t) ==
    {[neg |-> FALSE, mag |-> m] : m \in {x \in Magnitudes : Le(x, IntMax(t).mag)}}
    \cup (IF t \in SignedTypes
          THEN {[neg |-> TRUE, mag |-> m] :
                    m \in {x \in Magnitudes : x # <<>> /\ Le(x, IntMin(t).mag)}}
          ELSE {})

NoItoa == [i |-> [neg |-> FALSE, mag |-> <<>>], r |-> ItoaLiteral(<<>>, <<>>, FALSE)]

\* no method of the concat parameter traits has been called
NoConcat ==
    [arg |-> [kind |-> "none", t |-> "none"], method |-> "none",
     total_len |-> 0, n |-> 0, s |-> <<>>, total_len_after |-> 0]


(***************************************************************************)
(* The exponent arithmetic on its own: pow5bits, log10_pow2 and log10_pow5 *)
(* of common.rs over the ranges they are used on, and the estimate q, the  *)
(* adjusted q and the shift counts of d2d and f2d as functions of e2, over *)
(* every e2 the two formats produce.  `wide` is the product the function   *)
(* forms, before it is reduced to 32 bits.                                 *)
(***************************************************************************)
MaxPow5Exp == 325
MaxLog2Exp == 969
MaxLog5Exp == 1076

\* e2 of d2d and f2d step 1, for the exponent fields 0 (as 1) .. all ones - 1
D2dExponents ==
    (1 - DOUBLE_BIAS - DOUBLE_MANTISSA_BITS - 2)
        .. (2^DOUBLE_EXPONENT_BITS - 2 - DOUBLE_BIAS - DOUBLE_MANTISSA_BITS - 2)
F2dExponents ==
    (1 - FLOAT_BIAS - FLOAT_MANTISSA_BITS - 2)
        .. (2^FLOAT_EXPONENT_BITS - 2 - FLOAT_BIAS - FLOAT_MANTISSA_BITS - 2)

NoEst == [e |-> 0, r |-> 0, wide |-> 0, q_est |-> 0, q |-> 0, j |-> 0, l |-> 0]

pow5bits_call(e) == [NoEst EXCEPT !.e = e, !.r = pow5bits(e), !.wide = e * 1217359]
log10_pow2_call(e) == [NoEst EXCEPT !.e = e, !.r = log10_pow2(e), !.wide = e * 78913]
log10_pow5_call(e) == [NoEst EXCEPT !.e = e, !.r = log10_pow5(e), !.wide = e * 732923]

\* d2s.rs lines 81-85 and 109-113
d2d_exponent(e2) ==
    [NoEst EXCEPT !.e = e2,
                  !.q_est = IF e2 >= 0 THEN log10_pow2(e2) ELSE log10_pow5(-e2),
                  !.q = IF e2 >= 0 THEN d2d_q_pos(e2) ELSE d2d_q_neg(e2),
                  !.j = IF e2 >= 0 THEN d2d_j_pos(e2, d2d_q_pos(e2))
                        ELSE d2d_j_neg(e2, d2d_q_neg(e2))]

\* f2s.rs lines 47-57 and 68-79; l is the shift count of the multiplication
\* for the last removed digit, which is made only if q != 0
f2d_exponent(e2) ==
    [NoEst EXCEPT !.e = e2,
                  !.q_est = IF e2 >= 0 THEN log10_pow2(e2) ELSE log10_pow5(-e2),
                  !.q = IF e2 >= 0 THEN f2d_q_pos(e2) ELSE f2d_q_neg(e2),
                  !.j = IF e2 >= 0 THEN f2d_j_pos(e2, f2d_q_pos(e2))
                        ELSE f2d_j_neg(e2, f2d_q_neg(e2)),
                  !.l = IF e2 >= 0
                        THEN (IF f2d_q_pos(e2) # 0 THEN f2d_l_pos(e2, f2d_q_pos(e2)) ELSE 0)
                        ELSE (IF f2d_q_neg(e2) # 0 THEN f2d_l_neg(e2, f2d_q_neg(e2)) ELSE 0)]

NoPow5 ==
    [value0 |-> <<>>, p |-> 0, value |-> <<>>, count |-> 0, result |-> FALSE,
     returned |-> FALSE]

(***************************************************************************)
(* concat_vars (proc-tools/src/concat_vars.rs): the procedural macro that  *)
(* generates the concatenation code.  A parameter is given by its type     *)
(* annotation ("none" when it has none); the generated code is the         *)
(* sequence of its statements.  A statement is a `let` (it declares the    *)
(* variables in names), an `add_assign` (names += init, which reads        *)
(* names) or an `unsafe` statement of the copy block; reads are the        *)
(* variables its right-hand side mentions, init names that right-hand side.*)
(***************************************************************************)
MaxMacroParams == 2

StringAnnotations == {"String", "string", "str"}
SignedAnnotations == {"i8", "i16", "i32", "i64", "i128"}
UnsignedAnnotations == {"u8", "u16", "u32", "u64", "u128"}
FloatAnnotations == {"f32", "f64"}

\* the annotations the documentation of concat_vars lists as supported
SupportedAnnotations ==
    StringAnnotations \cup SignedAnnotations \cup UnsignedAnnotations \cup FloatAnnotations
    \cup {"isize", "usize", "char", "bool"}

\* the annotations a parameter is written with: the supported ones, none at
\* all, and a type the macro does not know
Annotations == SupportedAnnotations \cup {"none", "Vec"}

\* format_ident!("xl_proc_macro_concat_vars_temp_v{}", k)
var_name(k) == <<"v0", "v1", "v2", "v3">>[k + 1]

Let(names, init, reads) == [op |-> "let", names |-> names, init |-> init, reads |-> reads]
AddAssign(name, init, reads) ==
    [op |-> "add_assign", names |-> {name}, init |-> init, reads |-> reads \cup {name}]
Copy(init, reads) == [op |-> "copy", names |-> {"offset"}, init |-> init, reads |-> reads]

\* let mut bytes = [0u8; N]; let v = <conversion>(&mut bytes, ident);
gen_convert(v, fn) == <<Let({"bytes"}, "array", {}), Let({v}, fn, {"bytes", "ident"})>>

\* lines 111-213: the statements generated for an annotated first parameter
\* (none: the macro panics)
first_parameter_for_concat(t, v) ==
    IF t \in StringAnnotations
    THEN <<Let({"total_len"}, "ident.len()", {"ident"})>>
    ELSE IF t \in SignedAnnotations
    THEN gen_convert(v, "itoa_buf") \o <<Let({"total_len"}, "v.len()", {v})>>
    ELSE IF t = "isize"
    THEN gen_convert(v, "itoa_buf") \o <<AddAssign("total_len", "v.len()", {v})>>
    ELSE IF t \in UnsignedAnnotations
    THEN gen_convert(v, "itoa_buf") \o <<Let({"total_len"}, "v.len()", {v})>>
    ELSE IF t = "usize"
    THEN gen_convert(v, "itoa_buf") \o <<AddAssign("total_len", "v.len()", {v})>>
    ELSE IF t = "char"
    THEN gen_convert(v, "encode_utf8") \o <<Let({"total_len"}, "v.len()", {v})>>
    ELSE IF t = "bool"
    THEN <<Let({"total_len"}, "if ident { 4 } else { 5 }", {"ident"})>>
    ELSE IF t \in FloatAnnotations
    THEN gen_convert(v, "ftoa_buf") \o <<Let({"total_len"}, "v.len()", {v})>>
    ELSE <<>>

\* lines 216-318: the statements generated for an annotated later parameter
init_concat_parameter(t, v) ==
    IF t \in StringAnnotations
    THEN <<AddAssign("total_len", "ident.len()", {"ident"})>>
    ELSE IF t \in SignedAnnotations \cup UnsignedAnnotations \cup {"isize", "usize"}
    THEN gen_convert(v, "itoa_buf") \o <<AddAssign("total_len", "v.len()", {v})>>
    ELSE IF t = "char"
    THEN gen_convert(v, "encode_utf8") \o <<AddAssign("total_len", "v.len()", {v})>>
    ELSE IF t = "bool"
    THEN <<AddAssign("total_len", "if ident { 4 } else { 5 }", {"ident"})>>
    ELSE IF t \in FloatAnnotations
    THEN gen_convert(v, "ftoa_buf") \o <<AddAssign("total_len", "v.len()", {v})>>
    ELSE <<>>

\* lines 321-365: the copy generated for an annotated parameter
concat_parameter(t, v) ==
    IF t \in StringAnnotations THEN <<Copy("ident", {"s_ptr", "offset", "ident"})>>
    ELSE IF t = "bool" THEN <<Copy("if ident { true } else { false }", {"s_ptr", "offset", "ident"})>>
    ELSE IF t \in SupportedAnnotations THEN <<Copy("v", {"s_ptr", "offset", v})>>
    ELSE <<>>

\* lines 28-37, 47-53, 61-66: the code of parameter k (0 the first)
first_param_code(t) ==
    IF t = "none"
    THEN <<Let({"bytes"}, "array", {}),
           Let({"total_len", var_name(0)}, "ident.first_parameter_for_concat", {"ident", "bytes"})>>
    ELSE first_parameter_for_concat(t, var_name(0))

init_code(t, k) ==
    IF t = "none"
    THEN <<Let({"bytes"}, "array", {}),
           Let({var_name(k)}, "ident.init_concat_parameter", {"ident", "bytes", "total_len"})>>
    ELSE init_concat_parameter(t, var_name(k))

format_code(t, k) ==
    IF t = "none"
    THEN <<Copy("ident.concat_parameter", {"ident", "s_ptr", var_name(k), "offset"})>>
    ELSE concat_parameter(t, var_name(k))

RECURSIVE gen_init(_, _)
gen_init(tys, k) ==
    IF k >= Len(tys) THEN <<>> ELSE init_code(tys[k + 1], k) \o gen_init(tys, k + 1)

RECURSIVE gen_format(_, _)
gen_format(tys, k) ==
    IF k >= Len(tys) THEN <<>> ELSE format_code(tys[k + 1], k) \o gen_format(tys, k + 1)

\* lines 39, 211, 316, 363: no parameter, or an annotation that is not known
gen_panics(tys) == tys = <<>> \/ \E k \in 1..Len(tys) : tys[k] \notin SupportedAnnotations \cup {"none"}

\* lines 69-85: the expansion
gen_expanded(tys) ==
    first_param_code(tys[1]) \o gen_init(tys, 1)
    \o <<Let({"res"}, "String::with_capacity(total_len)", {"total_len"}),
         Let({"s_ptr"}, "res.as_mut_vec().as_mut_ptr()", {"res"}),
         Let({"offset"}, "0", {})>>
    \o gen_format(tys, 0)
    \o <<[op |-> "set_len", names |-> {}, init |-> "res.as_mut_vec().set_len(offset)",
          reads |-> {"res", "offset"}]>>

NoGen == [tys |-> <<>>, first |-> <<>>, code |-> <<>>, panicked |-> FALSE]

\* a concatenation through the trait methods, as the expansion performs it
NoSeq ==
    [args |-> <<>>, vars |-> <<>>, total_len |-> 0, capacity |-> 0, k |-> 0,
     out |-> <<>>, extent |-> 0, offset |-> 0, len |-> 0]

(***************************************************************************)
(* The calls: one call of ftoa_buf_f64 or ftoa_buf_f32 on a zeroed 24-byte *)
(* buffer (`let mut buf = [0u8; 24]`), for an input bit pattern drawn from *)
(* a sample of the two formats: named values, and a grid of exponent and   *)
(* mantissa fields, each with both signs.                                  *)
(***************************************************************************)
NumExp64 == 15
NumMan64 == 3
NumExp32 == 15
NumMan32 == 3

\* exponent fields: both ends, then alternately near the bias and across the range
F64Exp(j) == IF j = 0 THEN 0
             ELSE IF j = 1 THEN 1
             ELSE IF j = 2 THEN 2046
             ELSE IF j % 2 = 1 THEN DOUBLE_BIAS - 25 + 8 * (j \div 2)
             ELSE ((j \div 2) * 311) % 2047

\* mantissa fields: zero, all ones, then scattered
F64Man(k) == IF k = 0 THEN <<>>
             ELSE IF k = 1 THEN Sub(Shl(<<1>>, DOUBLE_MANTISSA_BITS), <<1>>)
             ELSE Trunc(Mul(FromNat(k - 1), FromDec(<<2783, 3595, 1277, 3125>>)),
                        DOUBLE_MANTISSA_BITS)

F32Exp(j) == IF j = 0 THEN 0
             ELSE IF j = 1 THEN 1
             ELSE IF j = 2 THEN 254
             ELSE IF j % 2 = 1 THEN FLOAT_BIAS - 25 + 8 * (j \div 2)
             ELSE ((j \div 2) * 37) % 255

F32Man(k) == IF k = 0 THEN <<>>
             ELSE IF k = 1 THEN Sub(Shl(<<1>>, FLOAT_MANTISSA_BITS), <<1>>)
             ELSE Trunc(Mul(FromNat(k - 1), FromDec(<<518, 4525>>)), FLOAT_MANTISSA_BITS)

\* <<exponent field, mantissa field>> of the values the documentation and the
\* specification name, of values at the layout thresholds, and of values
\* that take the branches of the flags and of the rounding (2^64 + 172032:
\* the lower bound is a multiple of 10^2; 2^-25: a tie; 2^-24 and 0.000732421875: vr = vm
\* with the lower bound not exact; 18014398509481992 and 33554472: vr = vm
\* with the lower bound exact; 4.7019836e-38: no digit removed by the loop)
Named64 ==
    { <<0, <<>> >>,                                      \* 0.0
      <<0, <<1>> >>,                                     \* 5e-324
      <<1023, <<>> >>,                                   \* 1.0
      <<1024, FromDec(<<2567, 517, 8760, 1183>>)>>,      \* 3.14
      <<1122, FromDec(<<2601, 8277, 3023, 506>>)>>,      \* 1e30
      <<923, FromDec(<<1205, 3911, 4345, 3344>>)>>,      \* 1e-30
      <<1010, FromDec(<<49, 568, 1002, 1021>>)>>,        \* 0.0001234
      <<1096, FromDec(<<264, 7719, 5466, 754>>)>>,       \* 1e22
      <<1076, FromDec(<<496, 4003, 7262, 9504>>)>>,      \* 1e16
      <<1072, FromDec(<<3496, 4003, 7262, 9504>>)>>,     \* 1e15
      <<1003, FromDec(<<2563, 4646, 9260, 9525>>)>>,     \* 1.4965090798470963e-6
      <<1072, FromDec(<<3496, 4003, 7262, 9508>>)>>,     \* 1000000000000000.5
      <<1036, FromDec(<<2283, 1358, 9507, 6864>>)>>,     \* 12345.0
      <<1006, FromDec(<<1399, 3584, 7621, 6561>>)>>,     \* 1e-5
      <<1095, FromDec(<<3516, 8013, 7360, 6066>>)>>,     \* 8.41e21
      <<1087, <<42>> >>,                                 \* 2^64 + 172032
      <<999, <<>> >>,                                    \* 2^-24
      <<998, <<>> >>,                                    \* 2^-25
      <<1077, <<2>> >>,                                  \* 18014398509481992
      <<2047, <<>> >>,                                   \* infinity
      <<2047, <<1>> >>,                                  \* NaN
      <<2047, Shl(<<1>>, 51)>> }                         \* f64::NAN

Named32 ==
    { <<0, <<>> >>,                                      \* 0.0
      <<0, <<1>> >>,                                     \* 1e-45
      <<127, <<>> >>,                                    \* 1.0
      <<128, FromDec(<<478, 1507>>)>>,                   \* 3.14
      <<226, FromDec(<<484, 6282>>)>>,                   \* 1e30
      <<27, FromDec(<<224, 5216>>)>>,                    \* 1e-30
      <<114, FromDec(<<9, 1375>>)>>,                     \* 0.0001234
      <<160, FromDec(<<137, 7017>>)>>,                   \* 1e10
      <<170, FromDec(<<114, 8135>>)>>,                   \* 1e13
      <<140, FromDec(<<425, 2672>>)>>,                   \* 12345.0
      <<107, FromDec(<<40, 7485>>)>>,                    \* 1e-6
      <<143, FromDec(<<741, 3861>>)>>,                   \* 123456.79
      <<159, FromDec(<<137, 7017>>)>>,                   \* 5e9
      <<116, Shl(<<1>>, 22)>>,                           \* 0.000732421875
      <<152, <<10>> >>,                                  \* 33554472
      <<3, <<11>> >>,                                    \* 4.7019836e-38
      <<255, <<>> >>,                                    \* infinity
      <<255, <<1>> >>,                                   \* NaN
      <<255, Shl(<<1>>, 22)>> }                          \* f32::NAN

Fields64 == Named64 \cup {<<F64Exp(j), F64Man(k)>> : j \in 0..NumExp64, k \in 0..NumMan64}
Fields32 == Named32 \cup {<<F32Exp(j), F32Man(k)>> : j \in 0..NumExp32, k \in 0..NumMan32}

\* f64::from_bits / f32::from_bits of sign, exponent field and mantissa field
F64Bits(sign, e, m) ==
    Add(Add(Shl(FromNat(sign), 63), Shl(FromNat(e), DOUBLE_MANTISSA_BITS)), m)
F32Bits(sign, e, m) ==
    Add(Add(Shl(FromNat(sign), 31), Shl(FromNat(e), FLOAT_MANTISSA_BITS)), m)

Inputs64 == {F64Bits(sign, x[1], x[2]) : sign \in {0, 1}, x \in Fields64}
Inputs32 == {F32Bits(sign, x[1], x[2]) : sign \in {0, 1}, x \in Fields32}

\* let mut buf = [0u8; 24]
FreshBuf == [b |-> [o \in 0..(F2STR_LEN - 1) |-> 0], w |-> {}]
NoRet == [static |-> FALSE, bytes |-> <<>>]

\* a call of ftoa_buf_f32 or ftoa_buf_f64 is about to be made
FtoaCall ==
    /\ pc = "call"
    /\ ty \in {"f32", "f64"}
    /\ bits \in (IF ty = "f32" THEN Inputs32 ELSE Inputs64)
    /\ buf = FreshBuf
    /\ ret = NoRet
    /\ seq = NoSeq
    /\ gen = NoGen
    /\ pow5 = NoPow5
    /\ est = NoEst
    /\ engine = [name |-> "none", v |-> NoDecimal, locals |-> NoLocals]
    /\ rmp = NoReplace
    /\ itoa = NoItoa
    /\ cat = NoConcat

\* the call returns: the buffer as the call left it, the slice, and the engine's result
Return(r) ==
    /\ buf' = r.mem
    /\ ret' = [static |-> r.static, bytes |-> r.bytes]
    /\ engine' = [name |-> r.engine, v |-> r.v, locals |-> r.locals]
    /\ pc' = "ret"
    /\ UNCHANGED <<ty, bits, rmp, itoa, cat, est, pow5, gen, seq>>

Ftoa64 ==
    /\ pc = "call"
    /\ ty = "f64"
    /\ Return(ftoa_buf_f64(buf, bits))

Ftoa32 ==
    /\ pc = "call"
    /\ ty = "f32"
    /\ Return(ftoa_buf_f32(buf, bits))


(***************************************************************************)
(* A call of replace_multiple_patterns.  pc is "rmp_call" before the call, *)
(* "rmp_scan" at the head of the scan loop, "rmp_ret" once the String is   *)
(* returned.  A raw-pointer write that ends beyond the capacity of the     *)
(* result is undefined behaviour: the build either carries on with the     *)
(* bytes written past the allocation, or the process is brought down       *)
(* ("rmp_fault").                                                          *)
(***************************************************************************)
ReplaceCall ==
    /\ pc = "rmp_call"
    /\ ty = "str"
    /\ bits = <<>>
    /\ buf = FreshBuf
    /\ ret = NoRet
    /\ seq = NoSeq
    /\ gen = NoGen
    /\ pow5 = NoPow5
    /\ est = NoEst
    /\ engine = [name |-> "none", v |-> NoDecimal, locals |-> NoLocals]
    /\ itoa = NoItoa
    /\ cat = NoConcat
    /\ \E c \in ReplaceInputs :
          rmp = [NoReplace EXCEPT !.input = c.input, !.patterns = c.patterns]

\* lines 95-125: the patterns are precomputed; with none left the input is
\* returned as it is, otherwise the result is allocated and the scan starts
rmp_enter(r, pre) ==
    IF pre = <<>>
    THEN [r EXCEPT !.out = r.input, !.len = Len(r.input), !.last = "copy"]
    ELSE [r EXCEPT !.pre = pre, !.capacity = rmp_capacity(r.input, pre), !.last = "alloc"]

RmpEnter ==
    /\ pc = "rmp_call"
    /\ rmp' = rmp_enter(rmp, rmp_precompute(rmp.patterns))
    /\ pc' = IF rmp'.last = "copy" THEN "rmp_ret" ELSE "rmp_scan"
    /\ UNCHANGED <<ty, bits, buf, ret, engine, itoa, cat, est, pow5, gen, seq>>

\* a raw-pointer write of `bytes` at write_pos, after which read_pos has
\* advanced by `consumed`
rmp_write(r, bytes, consumed, kind) ==
    [r EXCEPT !.out = @ \o bytes,
              !.extent = Max(@, r.write_pos + Len(bytes)),
              !.write_pos = @ + Len(bytes),
              !.read_pos = @ + consumed,
              !.iterations = @ + 1,
              !.last = kind]

RmpWritten(r, bytes, consumed, kind) ==
    /\ rmp' = rmp_write(r, bytes, consumed, kind)
    /\ pc' \in (IF r.write_pos + Len(bytes) > r.capacity
                THEN {"rmp_scan", "rmp_fault"}
                ELSE {"rmp_scan"})
    /\ UNCHANGED <<ty, bits, buf, ret, engine, itoa, cat, est, pow5, gen, seq>>

\* lines 150-157: a pattern matches at read_pos, its replacement is copied
RmpReplace ==
    /\ pc = "rmp_scan"
    /\ rmp.read_pos < Len(rmp.input)
    /\ rmp_first_match(rmp.input, rmp.read_pos, rmp.pre) # 0
    /\ RmpWritten(rmp,
                  rmp.pre[rmp_first_match(rmp.input, rmp.read_pos, rmp.pre)].replacement,
                  rmp.pre[rmp_first_match(rmp.input, rmp.read_pos, rmp.pre)].len,
                  "replacement")

\* lines 164-167: no pattern matches and the byte is ASCII
RmpCopyAscii ==
    /\ pc = "rmp_scan"
    /\ rmp.read_pos < Len(rmp.input)
    /\ rmp_first_match(rmp.input, rmp.read_pos, rmp.pre) = 0
    /\ rmp.input[rmp.read_pos + 1] < 128
    /\ RmpWritten(rmp, <<rmp.input[rmp.read_pos + 1]>>, 1, "ascii")

\* lines 168-185: no pattern matches and the byte starts a longer character
RmpCopyChar ==
    /\ pc = "rmp_scan"
    /\ rmp.read_pos < Len(rmp.input)
    /\ rmp_first_match(rmp.input, rmp.read_pos, rmp.pre) = 0
    /\ rmp.input[rmp.read_pos + 1] >= 128
    /\ RmpWritten(rmp,
                  SubSeq(rmp.input, rmp.read_pos + 1,
                         rmp.read_pos + rmp_actual_len(rmp.input, rmp.read_pos)),
                  rmp_actual_len(rmp.input, rmp.read_pos),
                  "char")

\* line 189: the loop is left, set_len(write_pos), the String is returned
RmpSetLen ==
    /\ pc = "rmp_scan"
    /\ rmp.read_pos >= Len(rmp.input)
    /\ rmp' = [rmp EXCEPT !.len = rmp.write_pos, !.last = "set_len"]
    /\ pc' \in (IF rmp.write_pos > rmp.capacity
                THEN {"rmp_ret", "rmp_fault"}
                ELSE {"rmp_ret"})
    /\ UNCHANGED <<ty, bits, buf, ret, engine, itoa, cat, est, pow5, gen, seq>>

(***************************************************************************)
(* A call of itoa_buf_<ty> on a zeroed buffer of the type's length.        *)
(***************************************************************************)
ItoaCall ==
    /\ pc = "itoa_call"
    /\ ty \in IntTypes
    /\ bits = <<>>
    /\ buf = FreshBuf
    /\ ret = NoRet
    /\ seq = NoSeq
    /\ gen = NoGen
    /\ pow5 = NoPow5
    /\ est = NoEst
    /\ engine = [name |-> "none", v |-> NoDecimal, locals |-> NoLocals]
    /\ rmp = NoReplace
    /\ cat = NoConcat
    /\ \E i \in IntValues(ty) : itoa = [i |-> i, r |-> ItoaLiteral(FreshIntBuf(ty), <<>>, FALSE)]

ItoaReturn(r) ==
    /\ itoa' = [itoa EXCEPT !.r = r]
    /\ pc' = IF r.panic THEN "itoa_panic" ELSE "itoa_ret"
    /\ UNCHANGED <<ty, bits, buf, ret, engine, rmp, cat, est, pow5, gen, seq>>

ItoaSigned ==
    /\ pc = "itoa_call"
    /\ ty \in SignedTypes
    /\ ItoaReturn(itoa_signed(ty, itoa.r.mem, itoa.i))

ItoaUnsigned ==
    /\ pc = "itoa_call"
    /\ ty \in UnsignedTypes
    /\ ItoaReturn(itoa_unsigned(ty, itoa.r.mem, itoa.i))

(***************************************************************************)
(* StaticSizeConcatParameter and VariableSizeConcatParameter: the methods  *)
(* first_parameter_for_concat and init_concat_parameter of every           *)
(* implementation.  An argument is of kind int (an integer of type t),     *)
(* float (given by its bits), string (the bytes of a String or str), char  *)
(* (its code point) or bool.  The scratch buffer `bytes` is zeroed and has *)
(* room for the type's length, as in the documentation's [0u8; 40].        *)
(***************************************************************************)
MaxConcatChars == 2

\* the integers, floats, strings, chars and bools a method is called on
ConcatInts ==
    {[kind |-> "int", t |-> t, int |-> i] :
        t \in IntTypes,
        i \in {[neg |-> FALSE, mag |-> <<>>], [neg |-> FALSE, mag |-> <<123>>],
               [neg |-> TRUE, mag |-> <<1>>], [neg |-> TRUE, mag |-> <<45>>]}}
    \cup {[kind |-> "int", t |-> t, int |-> IntMin(t)] : t \in SignedTypes}
    \cup {[kind |-> "int", t |-> t, int |-> IntMax(t)] : t \in IntTypes}

ConcatArgs ==
    {a \in ConcatInts : a.t \in SignedTypes \/ ~a.int.neg}
    \cup {[kind |-> "float", t |-> "f64", bits |-> F64Bits(sign, x[1], x[2])] :
              sign \in {0, 1}, x \in Named64}
    \cup {[kind |-> "float", t |-> "f32", bits |-> F32Bits(sign, x[1], x[2])] :
              sign \in {0, 1}, x \in Named32}
    \cup {[kind |-> "string", t |-> t, bytes |-> s] :
              t \in {"String", "str"}, s \in StringsOf(MaxConcatChars)}
    \cup {[kind |-> "char", t |-> "char", cp |-> cp] :
              cp \in {0, 97, 127, 128, 233, 2047, 2048, 8364, 65535, 65536, 128512, 1114111}}
    \cup {[kind |-> "bool", t |-> "bool", b |-> b] : b \in BOOLEAN}

\* $itoa_fn(array_ref, self) of the instance: itoa_buf_<t> or ftoa_buf_<t>
concat_itoa_fn(arg) ==
    IF arg.kind = "int" THEN itoa_buf(arg.t, FreshIntBuf(arg.t), arg.int).bytes
    ELSE IF arg.t = "f64" THEN ftoa_buf_f64(FreshBuf, arg.bits).bytes
    ELSE ftoa_buf_f32(FreshBuf, arg.bits).bytes

\* char::encode_utf8
encode_utf8(cp) ==
    IF cp < 128 THEN <<cp>>
    ELSE IF cp < 2048 THEN <<192 + (cp \div 64), 128 + (cp % 64)>>
    ELSE IF cp < 65536
    THEN <<224 + (cp \div 4096), 128 + ((cp \div 64) % 64), 128 + (cp % 64)>>
    ELSE <<240 + (cp \div 262144), 128 + ((cp \div 4096) % 64), 128 + ((cp \div 64) % 64),
           128 + (cp % 64)>>

\* first_parameter_for_concat: (length, bytes)
static_first(arg) == [n |-> Len(concat_itoa_fn(arg)), s |-> concat_itoa_fn(arg)]
string_first(arg) == [n |-> Len(arg.bytes), s |-> arg.bytes]
char_first(arg) == [n |-> Len(encode_utf8(arg.cp)), s |-> encode_utf8(arg.cp)]
bool_first(arg) == IF arg.b THEN [n |-> 4, s |-> <<48>>] ELSE [n |-> 5, s |-> <<48>>]

\* init_concat_parameter: the bytes, and total_len after the call
static_init(arg, total_len) ==
    [s |-> concat_itoa_fn(arg), total_len |-> total_len + Len(concat_itoa_fn(arg))]
string_init(arg, total_len) == [s |-> arg.bytes, total_len |-> total_len + Len(arg.bytes)]
char_init(arg, total_len) ==
    [s |-> encode_utf8(arg.cp), total_len |-> total_len + Len(encode_utf8(arg.cp))]
\* init_concat_parameter of bool adding 4 for either value
bool_init_four(arg, total_len) == [s |-> <<48>>, total_len |-> total_len + 4]

bool_init(arg, total_len) ==
    [s |-> <<48>>, total_len |-> total_len + (IF arg.b THEN 4 ELSE 5)]

ConcatCall ==
    /\ pc = "concat_call"
    /\ ty = "concat"
    /\ bits = <<>>
    /\ buf = FreshBuf
    /\ ret = NoRet
    /\ seq = NoSeq
    /\ gen = NoGen
    /\ pow5 = NoPow5
    /\ est = NoEst
    /\ engine = [name |-> "none", v |-> NoDecimal, locals |-> NoLocals]
    /\ rmp = NoReplace
    /\ itoa = NoItoa
    /\ \E a \in ConcatArgs, total_len \in {0, 3} :
          cat = [NoConcat EXCEPT !.arg = a, !.total_len = total_len]

FirstReturn(r) ==
    /\ cat' = [cat EXCEPT !.method = "first", !.n = r.n, !.s = r.s,
                          !.total_len_after = cat.total_len]
    /\ pc' = "concat_ret"
    /\ UNCHANGED <<ty, bits, buf, ret, engine, rmp, itoa, est, pow5, gen, seq>>

InitReturn(r) ==
    /\ cat' = [cat EXCEPT !.method = "init", !.s = r.s, !.total_len_after = r.total_len]
    /\ pc' = "concat_ret"
    /\ UNCHANGED <<ty, bits, buf, ret, engine, rmp, itoa, est, pow5, gen, seq>>

StaticFirst ==
    /\ pc = "concat_call"
    /\ cat.arg.kind \in {"int", "float"}
    /\ FirstReturn(static_first(cat.arg))

StaticInit ==
    /\ pc = "concat_call"
    /\ cat.arg.kind \in {"int", "float"}
    /\ InitReturn(static_init(cat.arg, cat.total_len))

StringFirst ==
    /\ pc = "concat_call"
    /\ cat.arg.kind = "string"
    /\ FirstReturn(string_first(cat.arg))

StringInit ==
    /\ pc = "concat_call"
    /\ cat.arg.kind = "string"
    /\ InitReturn(string_init(cat.arg, cat.total_len))

CharFirst ==
    /\ pc = "concat_call"
    /\ cat.arg.kind = "char"
    /\ FirstReturn(char_first(cat.arg))

CharInit ==
    /\ pc = "concat_call"
    /\ cat.arg.kind = "char"
    /\ InitReturn(char_init(cat.arg, cat.total_len))

BoolFirst ==
    /\ pc = "concat_call"
    /\ cat.arg.kind = "bool"
    /\ FirstReturn(bool_first(cat.arg))

BoolInit ==
    /\ pc = "concat_call"
    /\ cat.arg.kind = "bool"
    /\ InitReturn(bool_init(cat.arg, cat.total_len))

(***************************************************************************)
(* One evaluation of the exponent arithmetic: pc = "est_call" with the     *)
(* function in ty and the argument in est.e.                               *)
(***************************************************************************)
EstFunctions == {"pow5bits", "log10_pow2", "log10_pow5", "d2d_exponent", "f2d_exponent"}

EstArgs(f) ==
    IF f = "pow5bits" THEN 0..MaxPow5Exp
    ELSE IF f = "log10_pow2" THEN 0..MaxLog2Exp
    ELSE IF f = "log10_pow5" THEN 0..MaxLog5Exp
    ELSE IF f = "d2d_exponent" THEN D2dExponents
    ELSE F2dExponents

EstCall ==
    /\ pc = "est_call"
    /\ ty \in EstFunctions
    /\ bits = <<>>
    /\ buf = FreshBuf
    /\ ret = NoRet
    /\ seq = NoSeq
    /\ gen = NoGen
    /\ pow5 = NoPow5
    /\ engine = [name |-> "none", v |-> NoDecimal, locals |-> NoLocals]
    /\ rmp = NoReplace
    /\ itoa = NoItoa
    /\ cat = NoConcat
    /\ \E e \in EstArgs(ty) : est = [NoEst EXCEPT !.e = e]

EstReturn(r) ==
    /\ est' = r
    /\ pc' = "est_ret"
    /\ UNCHANGED <<ty, bits, buf, ret, engine, rmp, itoa, cat, pow5, gen, seq>>

Pow5bits == pc = "est_call" /\ ty = "pow5bits" /\ EstReturn(pow5bits_call(est.e))
Log10Pow2 == pc = "est_call" /\ ty = "log10_pow2" /\ EstReturn(log10_pow2_call(est.e))
Log10Pow5 == pc = "est_call" /\ ty = "log10_pow5" /\ EstReturn(log10_pow5_call(est.e))
D2dExponent == pc = "est_call" /\ ty = "d2d_exponent" /\ EstReturn(d2d_exponent(est.e))
F2dExponent == pc = "est_call" /\ ty = "f2d_exponent" /\ EstReturn(f2d_exponent(est.e))

(***************************************************************************)
(* The generic variant of d2d's step 4 on its own (d2s.rs lines 181-216):  *)
(* pc = "loop_call" with the locals vm <= vr <= vp and e10 as the variant  *)
(* starts, in engine.locals.s0.                                            *)
(***************************************************************************)
MaxLoopStart == 30
MaxLoopGap == 12

LoopStarts == {37 * k : k \in 0..MaxLoopStart}
LoopGaps == {13 * g : g \in 0..MaxLoopGap}

LoopCall ==
    /\ pc = "loop_call"
    /\ ty = "d2d_generic"
    /\ bits = <<>>
    /\ buf = FreshBuf
    /\ ret = NoRet
    /\ seq = NoSeq
    /\ gen = NoGen
    /\ pow5 = NoPow5
    /\ rmp = NoReplace
    /\ itoa = NoItoa
    /\ cat = NoConcat
    /\ est = NoEst
    /\ \E vm \in LoopStarts, a \in LoopGaps, b \in LoopGaps :
          engine = [name |-> "none", v |-> NoDecimal,
                    locals |-> [NoLocals EXCEPT
                                   !.s0 = Scaled(FromNat(vm + a), FromNat(vm + a + b),
                                                 FromNat(vm), 0, FALSE, FALSE, 0)]]

GenericLoop ==
    /\ pc = "loop_call"
    /\ engine' = [engine EXCEPT !.v = d2d_generic(engine.locals.s0),
                                !.locals.s1 = d2d_loops(engine.locals.s0),
                                !.locals.variant = "generic",
                                !.locals.passes = d2d_passes(engine.locals.s0)]
    /\ pc' = "loop_ret"
    /\ UNCHANGED <<ty, bits, buf, ret, rmp, itoa, cat, est, pow5, gen, seq>>

(***************************************************************************)
(* The divisibility loops on their own, one iteration per step:            *)
(* multiple_of_power_of_5 (d2s.rs lines 218-229) and                       *)
(* multiple_of_power_of_5_32 (f2s.rs lines 149-162).  pc = "pow5_call"     *)
(* while the loop runs, "pow5_ret" once it has returned.  The iterations   *)
(* of one call are capped at MaxPow5Count, which is more than the 27       *)
(* factors of five a nonzero u64 can have.                                 *)
(***************************************************************************)
MaxPow5Value == 130
MaxPow5P == 3
MaxPow5Count == 30

Pow5Values64 ==
    {FromNat(k) : k \in 0..MaxPow5Value} \cup {Pow5(k) : k \in 0..27}
        \cup {Sub(Shl(<<1>>, 64), <<1>>)}
Pow5Values32 ==
    {FromNat(k) : k \in 0..MaxPow5Value} \cup {Pow5(k) : k \in 0..13}
        \cup {Sub(Shl(<<1>>, 32), <<1>>)}

Pow5Call ==
    /\ pc = "pow5_call"
    /\ ty \in {"multiple_of_power_of_5", "multiple_of_power_of_5_32"}
    /\ bits = <<>>
    /\ buf = FreshBuf
    /\ ret = NoRet
    /\ seq = NoSeq
    /\ gen = NoGen
    /\ engine = [name |-> "none", v |-> NoDecimal, locals |-> NoLocals]
    /\ rmp = NoReplace
    /\ itoa = NoItoa
    /\ cat = NoConcat
    /\ est = NoEst
    /\ \E value \in (IF ty = "multiple_of_power_of_5" THEN Pow5Values64 ELSE Pow5Values32),
          p \in 0..MaxPow5P :
          pow5 = [NoPow5 EXCEPT !.value0 = value, !.p = p, !.value = value]

\* the values the 64-bit loop holds in at most n iterations from value
RECURSIVE Pow5Orbit(_, _)
Pow5Orbit(value, n) ==
    IF n = 0 \/ Lt(N_DIV_5, pow5_mul(value)) THEN {value}
    ELSE {value} \cup Pow5Orbit(pow5_mul(value), n - 1)

\* value.wrapping_mul(14757395258967641293), tabulated for those values
WRAPPING_MUL ==
    [value \in UNION {Pow5Orbit(v, MaxPow5Count) : v \in Pow5Values64} |-> pow5_mul(value)]

\* d2s.rs lines 221-227: one iteration, or the break and the return
multiple_of_power_of_5_iteration(s) ==
    IF Lt(N_DIV_5, WRAPPING_MUL[s.value])
    THEN [s EXCEPT !.value = WRAPPING_MUL[s.value], !.result = s.count >= s.p,
                   !.returned = TRUE]
    ELSE [s EXCEPT !.value = WRAPPING_MUL[s.value], !.count = s.count + 1]

\* f2s.rs lines 152-160: one iteration, or the break and the return
multiple_of_power_of_5_32_iteration(s) ==
    IF ModSmall(s.value, 5) # 0
    THEN [s EXCEPT !.result = s.count >= s.p, !.returned = TRUE]
    ELSE [s EXCEPT !.value = DivSmall(s.value, 5), !.count = s.count + 1]

Pow5Iterated(s) ==
    /\ pow5' = s
    /\ pc' = IF s.returned THEN "pow5_ret" ELSE pc
    /\ UNCHANGED <<ty, bits, buf, ret, engine, rmp, itoa, cat, est, gen, seq>>

Pow5Loop64 ==
    /\ pc = "pow5_call"
    /\ ty = "multiple_of_power_of_5"
    /\ pow5.count < MaxPow5Count
    /\ Pow5Iterated(multiple_of_power_of_5_iteration(pow5))

Pow5Loop32 ==
    /\ pc = "pow5_call"
    /\ ty = "multiple_of_power_of_5_32"
    /\ pow5.count < MaxPow5Count
    /\ Pow5Iterated(multiple_of_power_of_5_32_iteration(pow5))

(***************************************************************************)
(* One expansion of concat_vars!: the annotations of the parameters are    *)
(* chosen, concat_vars_implement generates the code or panics.             *)
(***************************************************************************)
RECURSIVE AnnotationLists(_)
AnnotationLists(n) ==
    IF n = 0 THEN {<<>>}
    ELSE {<<>>} \cup {<<t>> \o l : t \in Annotations, l \in AnnotationLists(n - 1)}

MacroCall ==
    /\ pc = "macro_call"
    /\ ty = "concat_vars"
    /\ bits = <<>>
    /\ buf = FreshBuf
    /\ ret = NoRet
    /\ seq = NoSeq
    /\ est = NoEst
    /\ pow5 = NoPow5
    /\ engine = [name |-> "none", v |-> NoDecimal, locals |-> NoLocals]
    /\ rmp = NoReplace
    /\ itoa = NoItoa
    /\ cat = NoConcat
    /\ \E tys \in AnnotationLists(MaxMacroParams) : gen = [NoGen EXCEPT !.tys = tys]

\* concat_vars_implement
ConcatVarsImplement ==
    /\ pc = "macro_call"
    /\ gen' = IF gen_panics(gen.tys) THEN [gen EXCEPT !.panicked = TRUE]
              ELSE [gen EXCEPT !.first = first_param_code(gen.tys[1]),
                               !.code = gen_expanded(gen.tys)]
    /\ pc' = "macro_ret"
    /\ UNCHANGED <<ty, bits, buf, ret, engine, rmp, itoa, cat, est, pow5, seq>>

(***************************************************************************)
(* The expansion of concat_vars! for parameters without annotation         *)
(* (concat_vars.rs lines 33-36, 49-52, 63-65, 69-85): the first parameter's*)
(* first_parameter_for_concat, init_concat_parameter of the others,        *)
(* String::with_capacity(total_len), concat_parameter of each at offset,   *)
(* set_len(offset).  One method call per step.  out is the bytes copied so *)
(* far, extent the highest offset a copy has reached.                      *)
(***************************************************************************)
MaxSeqParams == 3

\* the values sequences are made of
SeqArgs ==
    { [kind |-> "int", t |-> "i32", int |-> [neg |-> TRUE, mag |-> <<45>>]],
      [kind |-> "int", t |-> "i64", int |-> IntMin("i64")],
      [kind |-> "int", t |-> "u8", int |-> [neg |-> FALSE, mag |-> <<>>]],
      [kind |-> "float", t |-> "f64", bits |-> F64Bits(1, 1087, <<42>>)],
      [kind |-> "string", t |-> "String", bytes |-> <<>>],
      [kind |-> "string", t |-> "str", bytes |-> <<195, 169>>],
      [kind |-> "char", t |-> "char", cp |-> 8364],
      [kind |-> "bool", t |-> "bool", b |-> TRUE],
      [kind |-> "bool", t |-> "bool", b |-> FALSE] }

RECURSIVE SeqsOf(_)
SeqsOf(n) ==
    IF n = 1 THEN {<<a>> : a \in SeqArgs}
    ELSE SeqsOf(n - 1) \cup {<<a>> \o l : a \in SeqArgs, l \in SeqsOf(n - 1)}

\* the implementation the method call resolves to
first_of(arg) ==
    IF arg.kind \in {"int", "float"} THEN static_first(arg)
    ELSE IF arg.kind = "string" THEN string_first(arg)
    ELSE IF arg.kind = "char" THEN char_first(arg)
    ELSE bool_first(arg)

init_of(arg, total_len) ==
    IF arg.kind \in {"int", "float"} THEN static_init(arg, total_len)
    ELSE IF arg.kind = "string" THEN string_init(arg, total_len)
    ELSE IF arg.kind = "char" THEN char_init(arg, total_len)
    ELSE bool_init(arg, total_len)

\* concat_parameter of the integers, floats, String, str and char: vb is copied
\* to s_ptr.add(offset), offset grows by its length
slice_concat(vb, offset) == [copied |-> vb, offset |-> offset + Len(vb)]

\* concat_parameter of bool: the slice is ignored
bool_concat(arg, offset) ==
    IF arg.b THEN [copied |-> <<116, 114, 117, 101>>, offset |-> offset + 4]
    ELSE [copied |-> <<102, 97, 108, 115, 101>>, offset |-> offset + 5]

concat_of(arg, vb, offset) ==
    IF arg.kind = "bool" THEN bool_concat(arg, offset) ELSE slice_concat(vb, offset)

SeqCall ==
    /\ pc = "seq_first"
    /\ ty = "concat_seq"
    /\ bits = <<>>
    /\ buf = FreshBuf
    /\ ret = NoRet
    /\ gen = NoGen
    /\ est = NoEst
    /\ pow5 = NoPow5
    /\ engine = [name |-> "none", v |-> NoDecimal, locals |-> NoLocals]
    /\ rmp = NoReplace
    /\ itoa = NoItoa
    /\ cat = NoConcat
    /\ \E args \in SeqsOf(MaxSeqParams) : seq = [NoSeq EXCEPT !.args = args]

SeqStep(s, next) ==
    /\ seq' = s
    /\ pc' = next
    /\ UNCHANGED <<ty, bits, buf, ret, engine, rmp, itoa, cat, est, pow5, gen>>

\* let (mut total_len, mut v0) = p0.first_parameter_for_concat(&mut bytes);
SeqFirst ==
    /\ pc = "seq_first"
    /\ SeqStep([seq EXCEPT !.total_len = first_of(seq.args[1]).n,
                           !.vars = <<first_of(seq.args[1]).s>>], "seq_init")

\* let mut vk = pk.init_concat_parameter(&mut bytes, &mut total_len);
SeqInit ==
    /\ pc = "seq_init"
    /\ Len(seq.vars) < Len(seq.args)
    /\ SeqStep([seq EXCEPT
                   !.total_len = init_of(seq.args[Len(seq.vars) + 1], seq.total_len).total_len,
                   !.vars = Append(seq.vars, init_of(seq.args[Len(seq.vars) + 1], seq.total_len).s)],
               "seq_init")

\* let mut res = String::with_capacity(total_len); let mut offset = 0;
SeqWithCapacity ==
    /\ pc = "seq_init"
    /\ Len(seq.vars) = Len(seq.args)
    /\ SeqStep([seq EXCEPT !.capacity = seq.total_len, !.offset = 0], "seq_format")

\* pk.concat_parameter(s_ptr, &mut vk, &mut offset);
SeqConcat ==
    /\ pc = "seq_format"
    /\ seq.k < Len(seq.args)
    /\ SeqStep([seq EXCEPT
                   !.out = SubSeq(seq.out, 1, seq.offset)
                           \o concat_of(seq.args[seq.k + 1], seq.vars[seq.k + 1], seq.offset).copied,
                   !.extent = Max(seq.extent,
                                  seq.offset
                                  + Len(concat_of(seq.args[seq.k + 1], seq.vars[seq.k + 1], seq.offset).copied)),
                   !.offset = concat_of(seq.args[seq.k + 1], seq.vars[seq.k + 1], seq.offset).offset,
                   !.k = seq.k + 1],
               "seq_format")

\* res.as_mut_vec().set_len(offset);
SeqSetLen ==
    /\ pc = "seq_format"
    /\ seq.k = Len(seq.args)
    /\ SeqStep([seq EXCEPT !.len = seq.offset], "seq_ret")

Init == FtoaCall \/ ReplaceCall \/ ItoaCall \/ ConcatCall \/ EstCall \/ LoopCall
        \/ Pow5Call \/ MacroCall \/ SeqCall

\* a step of a call of replace_multiple_patterns
Replace == RmpEnter \/ RmpReplace \/ RmpCopyAscii \/ RmpCopyChar \/ RmpSetLen

\* a call of a method of the concat parameter traits
Concat == \/ StaticFirst \/ StaticInit \/ StringFirst \/ StringInit
          \/ CharFirst \/ CharInit \/ BoolFirst \/ BoolInit

\* a step of a concatenation through the trait methods
ConcatSeq == SeqFirst \/ SeqInit \/ SeqWithCapacity \/ SeqConcat \/ SeqSetLen

Estimate == Pow5bits \/ Log10Pow2 \/ Log10Pow5 \/ D2dExponent \/ F2dExponent
\* an iteration of a divisibility loop
Pow5Loop == Pow5Loop64 \/ Pow5Loop32

Next == Ftoa64 \/ Ftoa32 \/ Replace \/ ItoaSigned \/ ItoaUnsigned \/ Concat \/ Estimate \/ GenericLoop
        \/ Pow5Loop \/ ConcatVarsImplement \/ ConcatSeq

Spec == Init /\ [][Next]_vars

\* a call of replace_multiple_patterns or of a divisibility loop that can take
\* a step takes it
FairSpec == Spec /\ WF_vars(Replace) /\ WF_vars(Pow5Loop)


(***************************************************************************)
(* Properties.  The input's sign, exponent field and mantissa field are    *)
(* read off the bit pattern independently of the code: the value of a      *)
(* finite input is BinM * 2^BinE.                                          *)
(***************************************************************************)
Returned == pc = "ret"

MantBits == IF ty = "f32" THEN 23 ELSE 52
ExpBits == IF ty = "f32" THEN 8 ELSE 11
Bias == IF ty = "f32" THEN 127 ELSE 1023

SignBit == Shr(bits, MantBits + ExpBits) # <<>>
ExpField == ToNat(Trunc(Shr(bits, MantBits), ExpBits))
ManField == Trunc(bits, MantBits)

IsSpecial == ExpField = 2^ExpBits - 1
IsZero == ExpField = 0 /\ ManField = <<>>
FiniteNonzero == ~IsSpecial /\ ~IsZero

BinM == IF ExpField = 0 THEN ManField ELSE Add(Shl(<<1>>, MantBits), ManField)
BinE == (IF ExpField = 0 THEN 1 ELSE ExpField) - Bias - MantBits

\* The rounding interval of the input, in units of 2^(BinE - 2): the midpoints
\* to the two neighbouring values of the format.  The lower neighbour is half
\* as far away when the input is a power of two above the smallest normal.
\* A midpoint itself reads back as the input exactly when BinM is even.
Lower4 == Sub(MulSmall(BinM, 4), IF ManField = <<>> /\ ExpField > 1 THEN <<1>> ELSE <<2>>)
Upper4 == Add(MulSmall(BinM, 4), <<2>>)
TiesToInput == ModSmall(BinM, 2) = 0

\* the sign (-1, 0, 1) of d * 10^e - n * 2^f, with both sides scaled to integers
CmpDecBin(d, e, n, f) ==
    LET p5 == IF -342 < e /\ e < 342 THEN POW5[(IF e >= 0 THEN e ELSE -e) + 1]
              ELSE Pow5(IF e >= 0 THEN e ELSE -e)
        l0 == IF e >= 0 THEN Mul(d, p5) ELSE d
        r0 == IF e >= 0 THEN n ELSE Mul(n, p5)
        t == e - f
    IN IF t >= 0 THEN Cmp(Shl(l0, t), r0) ELSE Cmp(l0, Shl(r0, -t))

\* d * 10^e, read with round-to-nearest-even, gives the input's magnitude
InInterval(d, e) ==
    LET lo == CmpDecBin(d, e, Lower4, BinE - 2)
        hi == CmpDecBin(d, e, Upper4, BinE - 2)
    IN IF TiesToInput THEN lo >= 0 /\ hi <= 0 ELSE lo > 0 /\ hi < 0

\* A reader of the rendered text: [-]digits[.digits][e[-]digits]
IsDigits(s) == s # <<>> /\ \A i \in 1..Len(s) : s[i] \in 48..57
IndexOf(s, c) ==
    IF \E i \in 1..Len(s) : s[i] = c
    THEN CHOOSE i \in 1..Len(s) : s[i] = c /\ \A j \in 1..(i - 1) : s[j] # c
    ELSE Len(s) + 1

RECURSIVE ReadDigits(_, _)
ReadDigits(s, acc) ==
    IF s = <<>> THEN acc
    ELSE After(acc, ReadDigits(Tail(s), Add(MulSmall(acc, 10), FromNat(Head(s) - 48))))

ReadDecimal(s) ==
    LET neg == s # <<>> /\ s[1] = 45
        body == IF neg THEN Tail(s) ELSE s
        ePos == IndexOf(body, 101)
        mant == SubSeq(body, 1, ePos - 1)
        dot == IndexOf(mant, 46)
        int == SubSeq(mant, 1, dot - 1)
        frac == SubSeq(mant, dot + 1, Len(mant))
        expo == SubSeq(body, ePos + 1, Len(body))
        eneg == expo # <<>> /\ expo[1] = 45
        edig == IF eneg THEN Tail(expo) ELSE expo
        ok == /\ IsDigits(int)
              /\ dot <= Len(mant) => IsDigits(frac)
              /\ ePos <= Len(body) => IsDigits(edig)
        e == IF ePos <= Len(body) /\ IsDigits(edig)
             THEN (IF eneg THEN -1 ELSE 1) * ToNat(ReadDigits(edig, <<>>))
             ELSE 0
    IN [ok |-> ok, neg |-> neg,
        d |-> IF ok THEN ReadDigits(int \o frac, <<>>) ELSE <<>>,
        e |-> e - Len(frac)]

EngineOf == IF ty = "f32" THEN "f2d" ELSE "d2d"

\* C1 (round trip): for every finite nonzero f64 and f32 bit pattern, the
\* decimal mantissa * 10^exponent that d2d / f2d returns, and the text that
\* ftoa_buf_f64 / ftoa_buf_f32 renders from it, read back with
\* round-to-nearest-even to exactly the input: same sign, and a magnitude
\* inside the input's rounding interval.
C1_RoundTrip ==
    (Returned /\ FiniteNonzero) =>
        LET r == ReadDecimal(ret.bytes)
        IN /\ engine.name = EngineOf
           /\ InInterval(engine.v.mantissa, engine.v.exponent)
           /\ r.ok
           /\ r.neg = SignBit
           /\ InInterval(r.d, r.e)

\* the smallest positive subnormal f64, 5e-324, has been rendered and reads back
C1_Witness ==
    /\ Returned /\ ty = "f64" /\ bits = <<1>>
    /\ ret.bytes = <<53, 101, 45, 51, 50, 52>>
    /\ InInterval(ReadDecimal(ret.bytes).d, ReadDecimal(ret.bytes).e)

\* C2 (shortest): for every finite nonzero input, no decimal with fewer
\* significant digits than the mantissa d2d / f2d returns lies in the input's
\* rounding interval.  A decimal with fewer digits in the interval would put a
\* multiple of 10^(exponent + 1) in it, and the interval is convex around
\* mantissa * 10^exponent, so it is enough that the two multiples of
\* 10^(exponent + 1) nearest the result lie outside.  3.14 gives digits 314
\* with exponent -2 in both precisions.
Is314(v) == v = [mantissa |-> FromNat(314), exponent |-> -2]
IsPi32 == ty = "f32" /\ ExpField = 128 /\ ManField = FromDec(<<478, 1507>>)
IsPi64 == ty = "f64" /\ ExpField = 1024 /\ ManField = FromDec(<<2567, 517, 8760, 1183>>)

C2_Shortest ==
    (Returned /\ FiniteNonzero) =>
        LET m == engine.v.mantissa
            e == engine.v.exponent
            t == DivSmall(m, 10)
        IN /\ m # <<>>
           /\ \/ Lt(m, <<10>>)
              \/ ~InInterval(t, e + 1) /\ ~InInterval(Add(t, <<1>>), e + 1)
           /\ (IsPi32 \/ IsPi64) => Is314(engine.v)

\* 3.14f32 has been reduced to 314 * 10^-2, and neither 31 nor 32 tenths reads back
C2_Witness ==
    /\ Returned /\ IsPi32 /\ Is314(engine.v)
    /\ ~InInterval(FromNat(31), -1) /\ ~InInterval(FromNat(32), -1)

\* C3 (a 24-byte buffer is enough): for every finite f64 and f32 value, every
\* offset format64 / format32 writes to, the writes made before the digits are
\* moved into place included, is one of 0..23, and the returned count is at
\* most 24.
C3_BufferSufficient ==
    (Returned /\ ~IsSpecial) =>
        /\ buf.w \subseteq 0..23
        /\ DOMAIN buf.b = 0..23
        /\ Len(ret.bytes) <= 24

\* a negative f64 with 17 digits and a three-digit negative exponent fills the buffer
C3_Witness ==
    /\ Returned /\ ty = "f64" /\ SignBit /\ ~IsSpecial
    /\ Len(ret.bytes) = 24
    /\ buf.w = 0..23

\* C4 (special values): an exponent field of all ones gives "NAN" when the
\* mantissa field is nonzero, whatever the sign, "INFINITY" when it is zero and
\* the sign bit is clear, "NEG_INFINITY" when it is zero and the sign bit is
\* set; a zero exponent field with a zero mantissa field gives "0.0" or "-0.0"
\* by sign; d2d / f2d runs for none of these patterns.
C4_SpecialValues ==
    (Returned /\ (IsSpecial \/ IsZero)) =>
        /\ engine.name = "none"
        /\ ret.bytes =
              IF IsZero THEN (IF SignBit THEN <<45, 48, 46, 48>> ELSE <<48, 46, 48>>)
              ELSE IF ManField # <<>> THEN <<78, 65, 78>>
              ELSE IF SignBit THEN <<78, 69, 71, 95, 73, 78, 70, 73, 78, 73, 84, 89>>
              ELSE <<73, 78, 70, 73, 78, 73, 84, 89>>

\* a NaN with the sign bit set has been answered with "NAN", without the engine
C4_Witness ==
    /\ Returned /\ IsSpecial /\ ManField # <<>> /\ SignBit
    /\ ret.bytes = <<78, 65, 78>>
    /\ engine.name = "none"

\* the returned bytes are the first n bytes of the caller's buffer, all of them
\* written by the call, all of them ASCII
InBuffer ==
    /\ ~ret.static
    /\ ret.bytes # <<>>
    /\ 0..(Len(ret.bytes) - 1) \subseteq buf.w
    /\ \A i \in 1..Len(ret.bytes) : ret.bytes[i] = buf.b[i - 1] /\ ret.bytes[i] < 128

\* C5 (the result is in the caller's buffer), for the inputs it holds for: for
\* every f32 / f64 input whose exponent field is not all ones, ftoa_buf_f32 /
\* ftoa_buf_f64 writes the ASCII result into the caller's buffer from offset 0
\* on, and the returned bytes are exactly buffer[0..n], n being the count
\* written.  For an exponent field of all ones the returned bytes are a
\* literal of the program and the buffer is left as it was.
C5_ResultInBuffer ==
    Returned =>
        IF IsSpecial THEN ret.static /\ buf = FreshBuf
        ELSE InBuffer

\* -0.0 has been written into the buffer and returned from it
C5_Witness ==
    /\ Returned /\ IsZero /\ SignBit
    /\ InBuffer
    /\ ret.bytes = <<45, 48, 46, 48>>

\* C5 as stated, for every input value: the result is written into the
\* caller's buffer from offset 0 on and the returned bytes are buffer[0..n]
C5_AsStated == Returned => InBuffer

(***************************************************************************)
(* Layouts.  The digits of the mantissa the engine returned, their count,  *)
(* and kk = length + exponent, are computed here from the decimal value    *)
(* alone; the expected text is put together from them.                     *)
(***************************************************************************)
RECURSIVE DigitsOf(_)
DigitsOf(m) == IF Lt(m, <<10>>) THEN <<48 + ToNat(m)>>
               ELSE Append(DigitsOf(DivSmall(m, 10)), 48 + ModSmall(m, 10))

RECURSIVE NatText(_)
NatText(n) == IF n < 10 THEN <<48 + n>> ELSE Append(NatText(n \div 10), 48 + (n % 10))

Rep(c, n) == [i \in 1..n |-> c]

Engaged == Returned /\ engine.name # "none"
VDigits == DigitsOf(engine.v.mantissa)
VLen == Len(VDigits)
KK == VLen + engine.v.exponent
SignLen == IF SignBit THEN 1 ELSE 0
AfterSign == IF SignBit /\ ret.bytes # <<>> /\ ret.bytes[1] = 45 THEN Tail(ret.bytes)
             ELSE IF SignBit THEN <<>>
             ELSE ret.bytes

TrailingZeroCase == 0 <= engine.v.exponent /\ KK <= (IF ty = "f32" THEN 13 ELSE 16)
InteriorCase == ~TrailingZeroCase /\ 0 < KK /\ KK <= (IF ty = "f32" THEN 13 ELSE 16)
LeadingZeroCase == (IF ty = "f32" THEN -6 ELSE -5) < KK /\ KK <= 0
ScientificCase == ~TrailingZeroCase /\ ~InteriorCase /\ ~LeadingZeroCase

\* C6 (fixed layout with trailing ".0"): whenever 0 <= exponent and kk <= 16
\* (f64) or kk <= 13 (f32), the output after the optional sign is the mantissa
\* digits, then kk - length '0' characters, then ".0", and the returned count
\* is sign + kk + 2.
C6_TrailingZeroLayout ==
    (Engaged /\ TrailingZeroCase) =>
        /\ AfterSign = VDigits \o Rep(48, KK - VLen) \o <<46, 48>>
        /\ Len(ret.bytes) = SignLen + KK + 2

\* 1e15 as f64 has been rendered as a 1, fifteen zeros and ".0"
C6_Witness ==
    /\ Engaged /\ TrailingZeroCase /\ ty = "f64" /\ ~SignBit
    /\ KK = 16 /\ VLen = 1
    /\ ret.bytes = <<49>> \o Rep(48, 15) \o <<46, 48>>

\* C7 (fixed layout with an interior decimal point): whenever the first layout
\* does not apply and 0 < kk <= 16 (f64) or 0 < kk <= 13 (f32), the output
\* after the optional sign is the first kk mantissa digits, '.', then the
\* other length - kk digits in their order, and the returned count is
\* sign + length + 1.
C7_InteriorLayout ==
    (Engaged /\ InteriorCase) =>
        /\ KK < VLen
        /\ AfterSign = SubSeq(VDigits, 1, KK) \o <<46>> \o SubSeq(VDigits, KK + 1, VLen)
        /\ Len(ret.bytes) = SignLen + VLen + 1

\* 3.14f32 has been rendered as "3.14"
C7_Witness ==
    /\ Engaged /\ InteriorCase /\ IsPi32 /\ ~SignBit
    /\ KK = 1 /\ VLen = 3
    /\ ret.bytes = <<51, 46, 49, 52>>

\* C8 (fixed layout with a leading zero): whenever -5 < kk <= 0 (f64) or
\* -6 < kk <= 0 (f32), the output after the optional sign is "0.", then exactly
\* -kk '0' characters, then all the mantissa digits, and the returned count is
\* sign + 2 - kk + length; 0.0001234 is rendered as "0.0001234".
C8_LeadingZeroLayout ==
    (Engaged /\ LeadingZeroCase) =>
        /\ AfterSign = <<48, 46>> \o Rep(48, -KK) \o VDigits
        /\ Len(ret.bytes) = SignLen + 2 - KK + VLen

\* 0.0001234 as f64 has been rendered as "0.0001234"
C8_Witness ==
    /\ Engaged /\ LeadingZeroCase /\ ty = "f64" /\ ~SignBit
    /\ ExpField = 1010 /\ ManField = FromDec(<<49, 568, 1002, 1021>>)
    /\ KK = -3
    /\ ret.bytes = <<48, 46, 48, 48, 48, 49, 50, 51, 52>>

\* the decimal exponent as the scientific layout writes it
ExponentText(x) == IF x < 0 THEN <<45>> \o NatText(-x) ELSE NatText(x)

\* C9 (scientific layout): whenever none of the three fixed layouts applies,
\* the output after the optional sign is the single mantissa digit and 'e'
\* when length = 1, otherwise the first digit, '.', the other length - 1
\* digits and 'e'; then the exponent kk - 1, as '-' iff it is negative
\* followed by its absolute value in decimal, 1 to 3 digits with no leading
\* zero.
C9_ScientificLayout ==
    (Engaged /\ ScientificCase) =>
        /\ AfterSign = (IF VLen = 1 THEN VDigits
                        ELSE <<VDigits[1], 46>> \o Tail(VDigits))
                       \o <<101>> \o ExponentText(KK - 1)
        /\ Len(NatText(IF KK - 1 < 0 THEN 1 - KK ELSE KK - 1)) \in 1..3

\* 1e-30 as f64 has been rendered as "1e-30"
C9_Witness ==
    /\ Engaged /\ ScientificCase /\ ty = "f64" /\ ~SignBit
    /\ VLen = 1 /\ KK = -29
    /\ ret.bytes = <<49, 101, 45, 51, 48>>

\* the call on the input with the sign bit set
Negated == IF ty = "f32" THEN ftoa_buf_f32(FreshBuf, Add(bits, Shl(<<1>>, 31)))
           ELSE ftoa_buf_f64(FreshBuf, Add(bits, Shl(<<1>>, 63)))

\* C10 (sign symmetry): for every nonzero finite x, f64 and f32, the output
\* for -x is the byte '-' followed by exactly the output for x, and the
\* returned count is one larger.
C10_SignSymmetry ==
    (Returned /\ FiniteNonzero /\ ~SignBit) =>
        /\ Negated.bytes = <<45>> \o ret.bytes
        /\ Len(Negated.bytes) = Len(ret.bytes) + 1

\* 1e30 as f32 has been rendered as "1e30", and -1e30 is rendered as "-1e30"
C10_Witness ==
    /\ Returned /\ FiniteNonzero /\ ~SignBit /\ ty = "f32"
    /\ ret.bytes = <<49, 101, 51, 48>>
    /\ Negated.bytes = <<45, 49, 101, 51, 48>>

(***************************************************************************)
(* The reduction engines: what d2d and f2d hold as they return             *)
(***************************************************************************)
Locals == engine.locals

\* C11 (nonzero mantissa): for every finite nonzero input, f64 and f32, the
\* engine (d2d, f2d) has run and the mantissa it returned is not zero.
C11_NonzeroMantissa ==
    (Returned /\ FiniteNonzero) => (engine.name = EngineOf /\ engine.v.mantissa # <<>>)

\* the smallest positive subnormal f32 has gone through f2d, which returned 1 * 10^-45
C11_Witness ==
    /\ Returned /\ ty = "f32" /\ ExpField = 0 /\ ManField = <<1>>
    /\ engine.name = "f2d"
    /\ engine.v = [mantissa |-> <<1>>, exponent |-> -45]

\* C12 as stated: the digit-removal loops of one call make at most 17 passes
\* in d2d and at most 9 in f2d.
C12_AsStated ==
    (Returned /\ FiniteNonzero) => Locals.passes <= (IF ty = "f32" THEN 9 ELSE 17)

\* C12 (bounded loops): for every finite nonzero input the call returns, and
\* the digit-removal loops of one call make at most 18 passes in d2d and at
\* most 9 in f2d.
C12_LoopPasses ==
    (Returned /\ FiniteNonzero) => Locals.passes <= (IF ty = "f32" THEN 9 ELSE 18)

\* 1e22 as f64: d2d has removed 18 digits in 18 passes, and returned 1 * 10^22
C12_Witness ==
    /\ Returned /\ ty = "f64" /\ ~SignBit
    /\ ExpField = 1096 /\ ManField = FromDec(<<264, 7719, 5466, 754>>)
    /\ Locals.passes = 18
    /\ engine.v = [mantissa |-> <<1>>, exponent |-> 22]

\* C18 (normalisation): for every finite nonzero input, e2 is
\* 1 - bias - mantissaBits - 2 and m2 the mantissa field when the exponent
\* field is 0, else e2 is exponent - bias - mantissaBits - 2 and m2 is
\* 2^mantissaBits + the mantissa field; and 4 * m2 * 2^e2 is the magnitude of
\* the input, BinM * 2^BinE.
C18_Normalisation ==
    (Returned /\ FiniteNonzero) =>
        /\ Locals.e2 = (IF ExpField = 0 THEN 1 ELSE ExpField) - Bias - MantBits - 2
        /\ Locals.m2 = (IF ExpField = 0 THEN ManField
                        ELSE Add(Shl(<<1>>, MantBits), ManField))
        /\ Locals.m2 = BinM
        /\ Locals.e2 + 2 = BinE

\* 1.0 as f32 has been normalised to m2 = 2^23, e2 = -25
C18_Witness ==
    /\ Returned /\ ty = "f32" /\ ExpField = 127 /\ ManField = <<>>
    /\ Locals.m2 = Shl(<<1>>, 23)
    /\ Locals.e2 = -25

\* C19 (unscaled interval): for every finite nonzero input, mm_shift is 0
\* exactly when the mantissa field is zero and the exponent field is above 1,
\* and 1 otherwise; 4 * m2 - 1 - mm_shift and 4 * m2 + 2 are the midpoints to
\* the neighbouring values; and 4 * m2 is at least 1 + mm_shift.
C19_UnscaledInterval ==
    (Returned /\ FiniteNonzero) =>
        /\ Locals.mm_shift = (IF ManField = <<>> /\ ExpField > 1 THEN 0 ELSE 1)
        /\ Le(FromNat(1 + Locals.mm_shift), MulSmall(Locals.m2, 4))
        /\ Sub(Sub(MulSmall(Locals.m2, 4), <<1>>), FromNat(Locals.mm_shift)) = Lower4
        /\ Add(MulSmall(Locals.m2, 4), <<2>>) = Upper4

\* both values of mm_shift: 1.0 as f64 has mm_shift 0
C19_Witness ==
    /\ Returned /\ ty = "f64" /\ ExpField = 1023 /\ ManField = <<>>
    /\ Locals.mm_shift = 0
    /\ Lower4 = Sub(Shl(<<1>>, 54), <<1>>)

\* C20 as stated: in both engines q is log10_pow2(e2) when e2 >= 0 and
\* log10_pow5(-e2) when e2 < 0.
C20_AsStated ==
    (Returned /\ FiniteNonzero) =>
        Locals.q = (IF Locals.e2 >= 0 THEN log10_pow2(Locals.e2) ELSE log10_pow5(-Locals.e2))

\* C20 (estimated decimal exponent): when e2 >= 0 the inverse table is read
\* at index q, where q is log10_pow2(e2) in f2d and log10_pow2(e2) less one
\* if e2 > 3 in d2d; when e2 < 0 the direct table is read at index -e2 - q,
\* where q is log10_pow5(-e2) in f2d and log10_pow5(-e2) less one if -e2 > 1
\* in d2d.
C20_DecimalExponent ==
    (Returned /\ FiniteNonzero) =>
        IF Locals.e2 >= 0
        THEN /\ Locals.q = log10_pow2(Locals.e2)
                           - (IF ty = "f64" /\ Locals.e2 > 3 THEN 1 ELSE 0)
             /\ Locals.table = "DOUBLE_POW5_INV_SPLIT"
             /\ Locals.index = Locals.q
        ELSE /\ Locals.q = log10_pow5(-Locals.e2)
                           - (IF ty = "f64" /\ -Locals.e2 > 1 THEN 1 ELSE 0)
             /\ Locals.table = "DOUBLE_POW5_SPLIT"
             /\ Locals.index = -Locals.e2 - Locals.q

\* 1e22 as f64: e2 = 19, log10_pow2(19) = 5, and d2d has taken q = 4
C20_Witness ==
    /\ Returned /\ ty = "f64" /\ SignBit
    /\ ExpField = 1096 /\ ManField = FromDec(<<264, 7719, 5466, 754>>)
    /\ Locals.e2 = 19
    /\ log10_pow2(19) = 5
    /\ Locals.q = 4
    /\ Locals.table = "DOUBLE_POW5_INV_SPLIT"

(***************************************************************************)
(* Properties of replace_multiple_patterns.                                *)
(***************************************************************************)
Replacing == ty = "str"
Scanning == Replacing /\ rmp.last \in {"replacement", "ascii", "char", "set_len"}

\* C13: every raw-pointer write into the result (a replacement copy, one ASCII
\* byte, a multi-byte character copy) ends within the capacity the result
\* String was allocated with, and so does the final set_len(write_pos).
C13_AsStated ==
    Scanning => /\ rmp.extent <= rmp.capacity
                /\ rmp.len <= rmp.capacity

\* replace_multiple_patterns("a", [("a", "aab")]): the estimate 1 + 2 * 1 is
\* capped at 2, three bytes are written and set_len(3) follows
C13_Overflow ==
    /\ pc = "rmp_ret"
    /\ rmp.input = <<97>>
    /\ rmp.patterns = << <<<<97>>, <<97, 97, 98>>>> >>
    /\ rmp.capacity = 2
    /\ rmp.extent = 3
    /\ rmp.len = 3
    /\ rmp.out = <<97, 97, 98>>

\* the text at byte offset p of s starts with t
StartsWith(s, p, t) ==
    /\ p + Len(t) <= Len(s)
    /\ SubSeq(s, p + 1, p + Len(t)) = t

\* the pairs of the list, in list order, whose non-empty pattern is at offset p
MatchingAt(s, p, patterns) ==
    SelectSeq(patterns, LAMBDA pr : pr[1] # <<>> /\ StartsWith(s, p, pr[1]))

\* left-to-right replacement from offset p on: the first pair of the list that
\* matches at p is replaced and the scan goes on after the matched text,
\* and a position where none matches is copied
RECURSIVE ReplacedFrom(_, _, _)
ReplacedFrom(s, p, patterns) ==
    IF p >= Len(s) THEN <<>>
    ELSE IF MatchingAt(s, p, patterns) = <<>>
    THEN <<s[p + 1]>> \o ReplacedFrom(s, p + 1, patterns)
    ELSE Head(MatchingAt(s, p, patterns))[2]
         \o ReplacedFrom(s, p + Len(Head(MatchingAt(s, p, patterns))[1]), patterns)

ReplaceReturned == Replacing /\ pc = "rmp_ret"

\* C14: the returned String is the left-to-right replacement of the input: at
\* each read position the first non-empty pattern of the list that matches is
\* replaced and the scan continues after the matched text, other positions are
\* copied unchanged; "abcde" with [("bc", "Y"), ("abc", "X")] gives "Xde".
C14_LeftToRight ==
    /\ ReplaceReturned =>
          /\ rmp.len = Len(rmp.out)
          /\ rmp.out = ReplacedFrom(rmp.input, 0, rmp.patterns)
    /\ (Replacing /\ pc = "rmp_scan") =>
          /\ rmp.write_pos = Len(rmp.out)
          /\ rmp.out \o ReplacedFrom(rmp.input, rmp.read_pos, rmp.patterns)
                = ReplacedFrom(rmp.input, 0, rmp.patterns)
    /\ (/\ ReplaceReturned
        /\ rmp.input = <<97, 98, 99, 100, 101>>
        /\ rmp.patterns = << <<<<98, 99>>, <<89>>>>, <<<<97, 98, 99>>, <<88>>>> >>)
       => rmp.out = <<88, 100, 101>>

\* "abcde" with [("bc", "Y"), ("abc", "X")] has returned "Xde"
C14_Witness ==
    /\ ReplaceReturned
    /\ rmp.input = <<97, 98, 99, 100, 101>>
    /\ rmp.patterns = << <<<<98, 99>>, <<89>>>>, <<<<97, 98, 99>>, <<88>>>> >>
    /\ rmp.out = <<88, 100, 101>>
    /\ rmp.iterations = 3

NonEmptyPairs(patterns) == SelectSeq(patterns, LAMBDA pr : pr[1] # <<>>)

ReplaceEnded == pc \in {"rmp_ret", "rmp_fault"}

\* the scan loop makes one more iteration
ScanIteration == pc = "rmp_scan" /\ rmp'.iterations = rmp.iterations + 1

\* C15: every call of replace_multiple_patterns ends, also with empty patterns in
\* the list: the empty patterns are dropped before the scan, with no pattern
\* left the result is the input, and otherwise every iteration of the scan loop
\* strictly increases read_pos, which never exceeds the input length.
C15_Terminates ==
    /\ [](Replacing /\ pc # "rmp_call" =>
            /\ \A k \in 1..Len(rmp.pre) : rmp.pre[k].pattern # <<>> /\ rmp.pre[k].len > 0
            /\ Len(rmp.pre) = Len(NonEmptyPairs(rmp.patterns))
            /\ \A k \in 1..Len(rmp.pre) :
                  /\ rmp.pre[k].pattern = NonEmptyPairs(rmp.patterns)[k][1]
                  /\ rmp.pre[k].replacement = NonEmptyPairs(rmp.patterns)[k][2]
            /\ (rmp.pre = <<>> => pc = "rmp_ret" /\ rmp.out = rmp.input /\ rmp.iterations = 0)
            /\ rmp.read_pos <= Len(rmp.input)
            /\ rmp.iterations <= rmp.read_pos)
    /\ [][ScanIteration =>
            /\ rmp'.read_pos > rmp.read_pos
            /\ rmp'.read_pos <= Len(rmp.input)]_vars
    /\ (Replacing /\ pc = "rmp_call") ~> ReplaceEnded

\* an empty pattern ahead of a matching one is dropped and the scan runs to the end
C15_Witness ==
    /\ ReplaceReturned
    /\ rmp.input = <<97, 98>>
    /\ rmp.patterns = << <<<<>>, <<120>>>>, <<<<98>>, <<>>>> >>
    /\ Len(rmp.pre) = 1
    /\ rmp.read_pos = 2
    /\ rmp.iterations = 2
    /\ rmp.out = <<97>>

(***************************************************************************)
(* Properties of itoa_buf_<ty>.                                            *)
(***************************************************************************)
ItoaDone == ty \in IntTypes /\ pc # "itoa_call"

\* the returned text without its sign
ItoaBody == IF itoa.r.bytes # <<>> /\ itoa.r.bytes[1] = 45 THEN Tail(itoa.r.bytes)
            ELSE itoa.r.bytes

\* C17: itoa_buf_<ty>(buf, i) returns the canonical decimal text of i: '-' first
\* iff i < 0, no leading zero, "0" for zero, the literal for MIN; the write
\* index never goes below 0 of the buffer (4 bytes for i8, 3 for u8, 6 / 5 for
\* i16 / u16, 11 / 10 for i32 / u32, 20 for i64 / u64, 40 / 39 for i128 / u128);
\* MIN is never negated.
C17_Canonical ==
    ItoaDone =>
        /\ pc = "itoa_ret"
        /\ ~itoa.r.panic
        /\ ~itoa.r.overflow
        /\ 0 <= itoa.r.idx /\ itoa.r.idx <= IntBufSize(ty)
        /\ Len(itoa.r.mem) = IntBufSize(ty)
        /\ IntBufSize(ty) = (CASE ty = "i8" -> 4 [] ty = "u8" -> 3
                               [] ty = "i16" -> 6 [] ty = "u16" -> 5
                               [] ty = "i32" -> 11 [] ty = "u32" -> 10
                               [] ty = "i64" -> 20 [] ty = "u64" -> 20
                               [] ty = "i128" -> 40 [] ty = "u128" -> 39)
        /\ itoa.r.bytes # <<>>
        /\ (itoa.r.bytes[1] = 45) <=> itoa.i.neg
        /\ ItoaBody # <<>>
        /\ \A k \in 1..Len(ItoaBody) : ItoaBody[k] \in 48..57
        /\ ItoaBody[1] = 48 => Len(ItoaBody) = 1
        /\ ReadDigits(ItoaBody, <<>>) = itoa.i.mag
        /\ itoa.i.mag = <<>> => itoa.r.bytes = <<48>>
        /\ itoa.i = IntMin(ty) => itoa.r.static /\ itoa.r.bytes = IntMinStr(ty)
        /\ ~itoa.r.static => itoa.r.bytes = SubSeq(itoa.r.mem, itoa.r.idx + 1, IntBufSize(ty))

\* i128::MIN + 1 fills the 40-byte buffer down to offset 0
C17_Witness ==
    /\ ty = "i128"
    /\ pc = "itoa_ret"
    /\ itoa.i = [neg |-> TRUE, mag |-> IntMax("i128").mag]
    /\ itoa.r.idx = 0
    /\ ~itoa.r.static
    /\ itoa.r.bytes = <<45, 49, 55, 48, 49, 52, 49, 49, 56, 51, 52, 54, 48, 52, 54, 57, 50, 51,
                        49, 55, 51, 49, 54, 56, 55, 51, 48, 51, 55, 49, 53, 56, 56, 52, 49, 48,
                        53, 55, 50, 55>>

(***************************************************************************)
(* Properties of the concat parameter traits.                              *)
(***************************************************************************)
ConcatReturned == ty = "concat" /\ pc = "concat_ret"

\* the code point a UTF-8 sequence of one to four bytes encodes
DecodeUtf8(s) ==
    IF Len(s) = 1 THEN s[1]
    ELSE IF Len(s) = 2 THEN (s[1] - 192) * 64 + (s[2] - 128)
    ELSE IF Len(s) = 3 THEN (s[1] - 224) * 4096 + (s[2] - 128) * 64 + (s[3] - 128)
    ELSE (s[1] - 240) * 262144 + (s[2] - 128) * 4096 + (s[3] - 128) * 64 + (s[4] - 128)

\* s without a leading '-'
Unsigned(s) == IF s # <<>> /\ s[1] = 45 THEN Tail(s) ELSE s

\* s is the text of the argument
IsTextOf(arg, s) ==
    CASE arg.kind = "int" ->
            /\ s # <<>>
            /\ (s[1] = 45) <=> arg.int.neg
            /\ Unsigned(s) # <<>>
            /\ \A k \in 1..Len(Unsigned(s)) : Unsigned(s)[k] \in 48..57
            /\ Unsigned(s)[1] = 48 => Len(Unsigned(s)) = 1
            /\ ReadDigits(Unsigned(s), <<>>) = arg.int.mag
      [] arg.kind = "float" ->
            s = (IF arg.t = "f64" THEN ftoa_buf_f64(FreshBuf, arg.bits).bytes
                 ELSE ftoa_buf_f32(FreshBuf, arg.bits).bytes)
      [] arg.kind = "string" -> s = arg.bytes
      [] arg.kind = "char" ->
            /\ Len(s) = (IF arg.cp < 128 THEN 1 ELSE IF arg.cp < 2048 THEN 2
                         ELSE IF arg.cp < 65536 THEN 3 ELSE 4)
            /\ DecodeUtf8(s) = arg.cp
      [] arg.kind = "bool" ->
            s = (IF arg.b THEN <<116, 114, 117, 101>> ELSE <<102, 97, 108, 115, 101>>)

\* C16: for every value of every implementing type, first_parameter_for_concat
\* returns (n, s) with s the bytes of the value's text and n the length of s,
\* and init_concat_parameter returns the same s and adds its length to total_len.
C16_AsStated ==
    ConcatReturned =>
        /\ IsTextOf(cat.arg, cat.s)
        /\ cat.method = "first" => cat.n = Len(cat.s)
        /\ cat.method = "init" => cat.total_len_after = cat.total_len + Len(cat.s)

\* true.first_parameter_for_concat(..) has returned (4, b"0")
C16_BoolFirst ==
    /\ ConcatReturned
    /\ cat.arg.kind = "bool"
    /\ cat.arg.b
    /\ cat.method = "first"
    /\ cat.n = 4
    /\ cat.s = <<48>>

(***************************************************************************)
(* The exponent arithmetic and the digit-removal loops of d2d and f2d      *)
(***************************************************************************)
EstReturned(f) == pc = "est_ret" /\ ty = f

\* C30 (exponent arithmetic in range): for every e2 of a finite nonzero f64,
\* the adjusted q of d2d is not negative and the shift count passed to
\* mul_shift_64 is at least 64 and below 128; for every e2 of a finite
\* nonzero f32, the shift counts passed to mul_pow5_inv_div_pow2 and
\* mul_pow5_div_pow2 are at least 32 and below 96; and in a call of f2d,
\* vp - 1 is evaluated only with vp >= 1 and q - 1 only with q >= 1.
C30_ExponentsInRange ==
    /\ EstReturned("d2d_exponent") =>
          /\ est.q >= 0
          /\ 64 <= est.j /\ est.j < 128
    /\ EstReturned("f2d_exponent") =>
          /\ 32 <= est.j /\ est.j < 96
          /\ est.q # 0 => (32 <= est.l /\ est.l < 96)
    /\ (Returned /\ engine.name = "d2d") =>
          /\ Locals.q >= 0
          /\ 64 <= Locals.j /\ Locals.j < 128
    /\ (Returned /\ engine.name = "f2d") =>
          /\ 32 <= Locals.j /\ Locals.j < 96
          /\ Locals.last.evaluated =>
                /\ Locals.last.vp # <<>>
                /\ Locals.last.q >= 0
                /\ 32 <= Locals.last.j /\ Locals.last.j < 96

\* e2 = 4 in d2d: the estimate 1 is adjusted to q = 0, and the shift count is 121
C30_Witness ==
    /\ EstReturned("d2d_exponent")
    /\ est.e = 4 /\ est.q_est = 1 /\ est.q = 0 /\ est.j = 121

\* 10^n as 5^n * 2^n
Ten(n) == Shl(Pow5(n), n)

\* r = floor(log10 x): 10^r <= x < 10^(r + 1)
IsFloorLog10(x, r) == Le(Ten(r), x) /\ Lt(x, Ten(r + 1))

\* the product fits in 32 bits
FitsU32(wide) == 0 <= wide /\ wide \div 2^16 < 2^16

\* C24 (pow5bits): for 0 <= e <= MaxPow5Exp, pow5bits(e) is the bit length of
\* 5^e, that is 2^(r - 1) <= 5^e < 2^r, which is floor(e * log2 5) + 1, and
\* the product e * 1217359 does not overflow 32 bits.
C24_Pow5bits ==
    EstReturned("pow5bits") =>
        /\ est.r = BitLen(Pow5(est.e))
        /\ Le(Shl(<<1>>, est.r - 1), Pow5(est.e))
        /\ Lt(Pow5(est.e), Shl(<<1>>, est.r))
        /\ FitsU32(est.wide)

\* pow5bits(325) = 755, the bit length of 5^325
C24_Witness ==
    /\ EstReturned("pow5bits")
    /\ est.e = 325 /\ est.r = 755 /\ est.wide = 325 * 1217359

\* C25 (decimal logarithms): for 0 <= e <= MaxLog2Exp, log10_pow2(e) is
\* floor(log10 2^e); for 0 <= e <= MaxLog5Exp, log10_pow5(e) is
\* floor(log10 5^e); and neither product overflows 32 bits.
C25_Log10 ==
    /\ EstReturned("log10_pow2") =>
          /\ IsFloorLog10(Shl(<<1>>, est.e), est.r)
          /\ FitsU32(est.wide)
    /\ EstReturned("log10_pow5") =>
          /\ IsFloorLog10(Pow5(est.e), est.r)
          /\ FitsU32(est.wide)

\* log10_pow5(1076) = 752: 5^1076 has 753 decimal digits
C25_Witness ==
    /\ EstReturned("log10_pow5")
    /\ est.e = 1076 /\ est.r = 752

\* value is divisible by 5^p, by p exact divisions
RECURSIVE DivisibleByPow5(_, _)
DivisibleByPow5(value, p) ==
    IF p <= 0 THEN TRUE
    ELSE IF ModSmall(value, 5) # 0 THEN FALSE
    ELSE DivisibleByPow5(DivSmall(value, 5), p - 1)

DivisibleByPow2(value, p) == p <= 0 \/ Trunc(value, p) = <<>>

\* m * 2^e2 is an integer multiple of 10^e10, for m > 0: m * 2^(e2 - e10) *
\* 5^(-e10) is an integer
ExactMultiple(m, e2, e10) ==
    /\ DivisibleByPow2(m, e10 - e2)
    /\ DivisibleByPow5(m, e10)

D2dReturned == Returned /\ engine.name = "d2d"
F2dReturned == Returned /\ engine.name = "f2d"

\* C21 (trailing-zero flags): as the digit-removal loops of d2d start,
\* vr_is_trailing_zeros holds only if 4 * m2 * 2^e2 is an integer multiple of
\* 10^e10, and vm_is_trailing_zeros only if (4 * m2 - 1 - mm_shift) * 2^e2
\* is; multiple_of_power_of_5 is called only with e2 >= 0 and q <= 21, and
\* multiple_of_power_of_5_32 in f2d only with e2 >= 0 and q <= 9.
C21_FlagsSound ==
    /\ D2dReturned =>
          /\ Locals.s0.vr_is_trailing_zeros =>
                ExactMultiple(MulSmall(Locals.m2, 4), Locals.e2, Locals.s0.e10)
          /\ Locals.s0.vm_is_trailing_zeros =>
                ExactMultiple(Sub(Sub(MulSmall(Locals.m2, 4), <<1>>), FromNat(Locals.mm_shift)),
                              Locals.e2, Locals.s0.e10)
          /\ Locals.pow5_args # <<>> => (Locals.e2 >= 0 /\ Locals.q <= 21)
    /\ F2dReturned =>
          (Locals.pow5_args # <<>> => (Locals.e2 >= 0 /\ Locals.q <= 9))

\* 1e22 as f64: e2 = 19, q = 5, 4 * m2 is divisible by 5 and by 5^5, so vr is
\* exact
C21_Witness ==
    /\ D2dReturned /\ Locals.e2 >= 0
    /\ Locals.pow5_args = <<MulSmall(Locals.m2, 4)>>
    /\ Locals.s0.vr_is_trailing_zeros
    /\ Locals.s0.e10 = Locals.q /\ Locals.q > 0

\* floor(x / 10^k)
RECURSIVE DropDigits(_, _)
DropDigits(x, k) == IF k = 0 THEN x ELSE DropDigits(DivSmall(x, 10), k - 1)

\* the k lowest decimal digits of x are zero
RECURSIVE LowDigitsZero(_, _)
LowDigitsZero(x, k) ==
    IF k <= 0 THEN TRUE
    ELSE IF ModSmall(x, 10) # 0 THEN FALSE
    ELSE LowDigitsZero(DivSmall(x, 10), k - 1)

EngineReturned == D2dReturned \/ F2dReturned

\* the number of digits the call has removed, from the exponent it returned
DigitsRemoved == engine.v.exponent - Locals.s0.e10

\* vr and vm after the removal, and the digit of vr removed last (the one set
\* before the loops when none was removed)
FinalVr == DropDigits(Locals.s0.vr, DigitsRemoved)
FinalVm == DropDigits(Locals.s0.vm, DigitsRemoved)
LastRemovedDigit ==
    IF DigitsRemoved = 0 THEN Locals.s0.last_removed_digit
    ELSE ModSmall(DropDigits(Locals.s0.vr, DigitsRemoved - 1), 10)

\* every digit removed before the last one is zero, and so is what the
\* scaling dropped
EarlierDigitsZero ==
    /\ Locals.s0.vr_is_trailing_zeros
    /\ DigitsRemoved >= 1 =>
          (Locals.s0.last_removed_digit = 0 /\ LowDigitsZero(Locals.s0.vr, DigitsRemoved - 1))

\* the lower bound is an exact multiple of the power of ten kept
FinalVmExact == Locals.s0.vm_is_trailing_zeros /\ LowDigitsZero(Locals.s0.vm, DigitsRemoved)

ExactTie == LastRemovedDigit = 5 /\ EarlierDigitsZero

TrailingVariant == Locals.s0.vm_is_trailing_zeros \/ Locals.s0.vr_is_trailing_zeros

\* C22 (final rounding): the mantissa returned by d2d and f2d is vr + 1 if
\* vr = vm and the lower bound is not acceptable (not both accept_bounds and
\* vm exact), or if the last removed digit is >= 5, and vr otherwise; in the
\* trailing-zero variant an exact tie with vr even does not count as >= 5; in
\* the generic variant vr = vm always increments.
C22_FinalRounding ==
    EngineReturned =>
        engine.v.mantissa =
            Add(FinalVr,
                FromNat(B2N(
                    IF TrailingVariant
                    THEN \/ FinalVr = FinalVm /\ ~(Locals.accept_bounds /\ FinalVmExact)
                         \/ LastRemovedDigit >= 5 /\ ~(ExactTie /\ ModSmall(FinalVr, 2) = 0)
                    ELSE \/ FinalVr = FinalVm
                         \/ LastRemovedDigit >= 5)))

\* an exact tie with vr even in the trailing-zero variant: the mantissa is vr
C22_Witness ==
    /\ EngineReturned /\ TrailingVariant /\ DigitsRemoved >= 1
    /\ ExactTie /\ ModSmall(FinalVr, 2) = 0
    /\ engine.v.mantissa = FinalVr

\* the single-digit loop `while vp / 10 > vm / 10` alone, round-up initially
\* false, and the count of the digits it removes
RECURSIVE SingleDigitLoop(_, _, _, _, _)
SingleDigitLoop(vr, vp, vm, removed, round_up) ==
    IF Lt(DivSmall(vm, 10), DivSmall(vp, 10))
    THEN SingleDigitLoop(DivSmall(vr, 10), DivSmall(vp, 10), DivSmall(vm, 10),
                         removed + 1, ModSmall(vr, 10) >= 5)
    ELSE [vr |-> vr, vp |-> vp, vm |-> vm, removed |-> removed, round_up |-> round_up]

SingleDigitOnly == SingleDigitLoop(Locals.s0.vr, Locals.s0.vp, Locals.s0.vm, 0, FALSE)

\* the generic variant of d2d has run, in a call of d2d or on its own
GenericDone == (D2dReturned /\ ~TrailingVariant) \/ pc = "loop_ret"

\* C23 (two-digit fast path): the generic variant of d2d, which divides by
\* 100 once when vp / 100 > vm / 100 and then runs the single-digit loop,
\* ends with the vr, vp, vm, removed count and round-up decision of the
\* single-digit loop run alone from the same start, returns the same
\* mantissa vr + (vr = vm or round-up), and returns the exponent e10 plus
\* the number of digits removed.
C23_FastPath ==
    GenericDone =>
        /\ Locals.s1.vr = SingleDigitOnly.vr
        /\ Locals.s1.vp = SingleDigitOnly.vp
        /\ Locals.s1.vm = SingleDigitOnly.vm
        /\ Locals.s1.removed = SingleDigitOnly.removed
        /\ Locals.s1.round_up = SingleDigitOnly.round_up
        /\ engine.v.mantissa =
              Add(SingleDigitOnly.vr,
                  FromNat(B2N(SingleDigitOnly.vr = SingleDigitOnly.vm
                              \/ SingleDigitOnly.round_up)))
        /\ engine.v.exponent = Locals.s0.e10 + SingleDigitOnly.removed
        /\ Locals.s1.vr = DropDigits(Locals.s0.vr, SingleDigitOnly.removed)

\* vm = 999, vr = 1012, vp = 1025: the hundred-divide leaves 9, 10, 10, the
\* loop removes one digit more and rounds down; three digits removed
C23_Witness ==
    /\ pc = "loop_ret"
    /\ Locals.s0.vm = FromNat(999) /\ Locals.s0.vr = FromNat(1012)
    /\ Locals.s0.vp = FromNat(1025)
    /\ Locals.s1.removed = 3 /\ Locals.s1.passes = 1
    /\ engine.v = [mantissa |-> <<1>>, exponent |-> 3]

Pow5Running == pc = "pow5_call"
Pow5Returned == pc = "pow5_ret"

\* the values d2d and f2d may pass: 4 * m2, 4 * m2 - 1 - mm_shift, 4 * m2 + 2
Pow5Operands ==
    { MulSmall(Locals.m2, 4),
      Sub(Sub(MulSmall(Locals.m2, 4), <<1>>), FromNat(Locals.mm_shift)),
      Add(MulSmall(Locals.m2, 4), <<2>>) }

\* a call returns only on a nonzero value, with "value is divisible by 5^p"
Pow5ResultRight ==
    Pow5Returned =>
        /\ pow5.value0 # <<>>
        /\ pow5.result = DivisibleByPow5(pow5.value0, pow5.p)

\* an iteration on the value 0 leaves the value 0 and the loop running
Pow5ZeroStays ==
    (Pow5Running /\ pow5.value = <<>>) => (Pow5Running' /\ pow5'.value = <<>>)

\* d2d and f2d pass nonzero values only
Pow5CallersNonzero ==
    EngineReturned =>
        /\ Locals.m2 # <<>>
        /\ \A k \in 1..Len(Locals.pow5_args) :
              Locals.pow5_args[k] # <<>> /\ Locals.pow5_args[k] \in Pow5Operands

\* C29 (divisibility loops): multiple_of_power_of_5 and
\* multiple_of_power_of_5_32 never return on the value 0 (an iteration on 0
\* leaves 0 and does not break); on every nonzero value they return, with
\* the result "value is divisible by 5^p"; and d2d and f2d call them only
\* with the nonzero values 4 * m2, 4 * m2 - 1 - mm_shift and 4 * m2 + 2,
\* m2 >= 1.
C29_DivisibilityLoops ==
    /\ []Pow5ResultRight
    /\ [][Pow5ZeroStays]_vars
    /\ []Pow5CallersNonzero
    /\ (Pow5Running /\ pow5.value0 # <<>>) ~> Pow5Returned

\* 5^27 with p = 3: the 64-bit loop has made 27 iterations and returned true
C29_Witness ==
    /\ Pow5Returned /\ ty = "multiple_of_power_of_5"
    /\ pow5.value0 = Pow5(27) /\ pow5.p = 3
    /\ pow5.count = 27 /\ pow5.result

(***************************************************************************)
(* What format64 / format32 leave in the buffer                            *)
(***************************************************************************)
FloatReturned == Returned /\ ty \in {"f64", "f32"} /\ ~IsSpecial

\* the bytes of '-', '.', 'e' and '0' .. '9'
NumberBytes == {B_MINUS, B_DOT, B_E} \cup (B_0 .. (B_0 + 9))

\* C27 (frame of the formatters): for every finite input, when format64 /
\* format32 has returned n, the offsets written are exactly 0 .. n - 1, every
\* one of them holds a byte of '-', '.', 'e', '0' .. '9', and no offset at or
\* beyond n has been written, in the five layouts and for zero.
C27_WrittenExactly ==
    FloatReturned =>
        /\ ~ret.static
        /\ buf.w = 0..(Len(ret.bytes) - 1)
        /\ \A o \in buf.w : buf.b[o] \in NumberBytes
        /\ \A o \in 0..(F2STR_LEN - 1) : o >= Len(ret.bytes) => o \notin buf.w /\ buf.b[o] = 0

\* -1e-30 as f32 in the scientific layout: "-1e-30", six bytes written
C27_Witness ==
    /\ FloatReturned /\ ty = "f32" /\ SignBit /\ ScientificCase
    /\ ret.bytes = <<B_MINUS, B_0 + 1, B_E, B_MINUS, B_0 + 3, B_0>>
    /\ buf.w = 0..5

Expanded == pc = "macro_ret" /\ ~gen.panicked

\* statement k of the code mentions the variable name before any `let` of it
UsedUndeclared(code, name) ==
    \E k \in 1..Len(code) :
        /\ name \in code[k].reads
        /\ ~\E j \in 1..(k - 1) : code[j].op = "let" /\ name \in code[j].names

\* the right-hand sides that are the length of the parameter's text
TextLengths == {"ident.len()", "v.len()", "if ident { 4 } else { 5 }"}

DeclaresTotalLen(code) ==
    \E k \in 1..Len(code) :
        /\ code[k].op = "let"
        /\ "total_len" \in code[k].names
        /\ code[k].init \in TextLengths

\* C26 as stated: for every supported annotation of the first parameter
\* (isize and usize included) the code generated for it declares total_len,
\* initialised to the length of the parameter's text, and no statement of the
\* expansion mentions total_len before it is declared.
C26_AsStated ==
    (Expanded /\ gen.tys[1] \in SupportedAnnotations)
        => /\ DeclaresTotalLen(gen.first)
           /\ ~UsedUndeclared(gen.code, "total_len")

\* the expansion of concat_vars!(n: isize)
C26_IsizeFirst ==
    /\ Expanded
    /\ gen.tys = <<"isize">>
    /\ ~DeclaresTotalLen(gen.first)
    /\ UsedUndeclared(gen.code, "total_len")

\* for every other supported annotation of the first parameter the statement holds
C26_OtherAnnotations ==
    (Expanded /\ gen.tys[1] \in SupportedAnnotations \ {"isize", "usize"})
        => /\ DeclaresTotalLen(gen.first)
           /\ ~UsedUndeclared(gen.code, "total_len")

SeqCopying == ty = "concat_seq" /\ pc \in {"seq_format", "seq_ret"}
SeqReturned == ty = "concat_seq" /\ pc = "seq_ret"

\* the length of the text of a parameter
TextLen(arg) ==
    IF arg.kind = "bool" THEN (IF arg.b THEN 4 ELSE 5)
    ELSE IF arg.kind = "string" THEN Len(arg.bytes)
    ELSE IF arg.kind = "char" THEN Len(encode_utf8(arg.cp))
    ELSE Len(concat_itoa_fn(arg))

RECURSIVE SumTextLen(_)
SumTextLen(args) == IF args = <<>> THEN 0 ELSE TextLen(Head(args)) + SumTextLen(Tail(args))

\* C28: for every sequence of concat parameters (static and variable size
\* mixed, bool and char included) the total_len accumulated by
\* first_parameter_for_concat and the init_concat_parameter calls equals the
\* offset after the matching concat_parameter calls: every copy ends within
\* the capacity total_len the String was allocated with, and set_len(offset)
\* sets the length to that capacity.
C28_LengthsAgree ==
    /\ SeqCopying => /\ seq.capacity = seq.total_len
                     /\ seq.extent <= seq.capacity
                     /\ seq.offset = Len(seq.out)
    /\ SeqReturned => /\ seq.offset = seq.total_len
                      /\ seq.len = seq.capacity
                      /\ seq.total_len = SumTextLen(seq.args)

\* false, the euro sign and -45 have been concatenated: 5 + 3 + 3 bytes
C28_Witness ==
    /\ SeqReturned
    /\ seq.args = << [kind |-> "bool", t |-> "bool", b |-> FALSE],
                     [kind |-> "char", t |-> "char", cp |-> 8364],
                     [kind |-> "int", t |-> "i32", int |-> [neg |-> TRUE, mag |-> <<45>>]] >>
    /\ seq.out = <<102, 97, 108, 115, 101, 226, 130, 172, 45, 52, 53>>
    /\ seq.len = 11
    /\ seq.capacity = 11
====
